---- MODULE Spec2Model ----
(***************************************************************************)
(* Label-vision backend: the extraction pipeline (image validation, region *)
(* split, OCR, text cleaning, field extraction) as a state machine.        *)
(*                                                                         *)
(* Text is a sequence of one-character strings.  The character "BULLET"    *)
(* stands for U+2022.  Confidence values are integers in hundredths        *)
(* (0.40 is 40).                                                           *)
(***************************************************************************)
EXTENDS Integers, Sequences, FiniteSets, TLC

\* ------------------------------------------------------------------------
\* Characters and the Python string primitives the services use
\* ------------------------------------------------------------------------

LowerSeq == <<"a","b","c","d","e","f","g","h","i","j","k","l","m",
              "n","o","p","q","r","s","t","u","v","w","x","y","z">>
UpperSeq == <<"A","B","C","D","E","F","G","H","I","J","K","L","M",
              "N","O","P","Q","R","S","T","U","V","W","X","Y","Z">>
Lower == {LowerSeq[i] : i \in 1..26}
Upper == {UpperSeq[i] : i \in 1..26}
Digit == {"0","1","2","3","4","5","6","7","8","9"}
Letter == Lower \cup Upper
\* str.strip() and the regex class \s
White == {" ", "\t", "\n"}

UpChar(c) == IF c \in Lower THEN UpperSeq[CHOOSE i \in 1..26 : LowerSeq[i] = c] ELSE c
LowChar(c) == IF c \in Upper THEN LowerSeq[CHOOSE i \in 1..26 : UpperSeq[i] = c] ELSE c

\* str.upper(), str.lower()
StrUpper(s) == [i \in 1..Len(s) |-> UpChar(s[i])]
StrLower(s) == [i \in 1..Len(s) |-> LowChar(s[i])]

\* s[a..b] (1-based, inclusive); empty when a > b
Sub(s, a, b) == IF a > b THEN <<>> ELSE SubSeq(s, a, b)

\* needle occurs in s at position i (1-based)
OccursAt(needle, s, i) ==
    /\ i >= 1
    /\ i + Len(needle) - 1 <= Len(s)
    /\ \A k \in 1..Len(needle) : s[i + k - 1] = needle[k]

\* Python's `needle in s`
Contains(needle, s) == \E i \in 1..(Len(s) + 1) : OccursAt(needle, s, i)

\* str.strip(chars): drop leading and trailing characters of the set
StripChars(s, chars) ==
    LET keep == {i \in 1..Len(s) : s[i] \notin chars}
    IN  IF keep = {} THEN <<>>
        ELSE LET a == CHOOSE i \in keep : \A j \in keep : i <= j
                 b == CHOOSE i \in keep : \A j \in keep : i >= j
             IN SubSeq(s, a, b)

\* str.strip()
Strip(s) == StripChars(s, White)

\* str.split(sep) for a one-character sep: every separator cuts, empty
\* pieces are kept (one step for each piece, from position i on)
RECURSIVE SplitFrom(_, _, _, _)
SplitFrom(s, sep, i, cur) ==
    IF \A j \in i..Len(s) : s[j] # sep THEN <<cur \o Sub(s, i, Len(s))>>
    ELSE <<cur \o Sub(s, i, (CHOOSE j \in i..Len(s) :
                                s[j] = sep /\ \A k \in i..(j - 1) : s[k] # sep) - 1)>>
         \o SplitFrom(s, sep,
                      (CHOOSE j \in i..Len(s) :
                          s[j] = sep /\ \A k \in i..(j - 1) : s[k] # sep) + 1,
                      <<>>)
Split(s, sep) == SplitFrom(s, sep, 1, <<>>)

\* re.split(r'[seps]+', s): a run of separators cuts once; a leading or
\* trailing run leaves an empty piece (one step for each piece, from
\* position i on)
RECURSIVE SplitRunsFrom(_, _, _, _)
SplitRunsFrom(s, seps, i, cur) ==
    IF \A j \in i..Len(s) : s[j] \notin seps THEN <<cur \o Sub(s, i, Len(s))>>
    ELSE <<cur \o Sub(s, i, (CHOOSE j \in i..Len(s) :
                                s[j] \in seps /\ \A k \in i..(j - 1) : s[k] \notin seps) - 1)>>
         \o SplitRunsFrom(s, seps,
                          CHOOSE m \in i..(Len(s) + 1) :
                              /\ m = Len(s) + 1 \/ s[m] \notin seps
                              /\ \E j \in i..(m - 1) :
                                    /\ \A k \in i..(j - 1) : s[k] \notin seps
                                    /\ \A k \in j..(m - 1) : s[k] \in seps,
                          <<>>)
SplitRuns(s, seps) == SplitRunsFrom(s, seps, 1, <<>>)

\* sep.join(parts)
RECURSIVE Join(_, _)
Join(parts, sep) ==
    IF parts = <<>> THEN <<>>
    ELSE IF Len(parts) = 1 THEN parts[1]
    ELSE parts[1] \o sep \o Join(Tail(parts), sep)

\* str.isupper(): at least one cased character and no lowercase one
IsUpperStr(s) ==
    /\ \E i \in 1..Len(s) : s[i] \in Upper
    /\ \A i \in 1..Len(s) : s[i] \notin Lower

\* len(s.split()): the number of whitespace-separated words
WordCount(s) ==
    Cardinality({i \in 1..Len(s) :
        s[i] \notin White /\ (i = 1 \/ s[i - 1] \in White)})

\* the length of the longest run of characters of `class` starting at i
RECURSIVE RunLen(_, _, _)
RunLen(s, i, class) ==
    IF i >= 1 /\ i <= Len(s) /\ s[i] \in class
    THEN 1 + RunLen(s, i + 1, class)
    ELSE 0

\* ------------------------------------------------------------------------
\* TextCleaner (services/text_cleaner.py)
\* ------------------------------------------------------------------------

MIN_LINE_LENGTH == 2

\* SYMBOL_ONLY_PATTERN = ^[^a-zA-Z0-9]+$ matched against a stripped line
SYMBOL_ONLY_PATTERN(line) ==
    /\ line # <<>>
    /\ \A i \in 1..Len(line) : line[i] \notin (Letter \cup Digit)

\* EXTRA_WHITESPACE_PATTERN.sub(' ', line): every run of \s becomes one space
RECURSIVE CollapseFrom(_, _)
CollapseFrom(line, i) ==
    IF i > Len(line) THEN <<>>
    ELSE IF line[i] \in White
         THEN IF i > 1 /\ line[i - 1] \in White
              THEN CollapseFrom(line, i + 1)
              ELSE <<" ">> \o CollapseFrom(line, i + 1)
    ELSE <<line[i]>> \o CollapseFrom(line, i + 1)

\* a variant that leaves the whitespace of a line as it is
EXTRA_WHITESPACE_sub_none(line) == line

EXTRA_WHITESPACE_sub(line) == CollapseFrom(line, 1)

RECURSIVE CleanLines(_)
CleanLines(lines) ==
    IF lines = <<>> THEN <<>>
    ELSE LET line == Strip(Head(lines))
             rest == CleanLines(Tail(lines))
         IN  IF line = <<>> THEN rest
             ELSE IF SYMBOL_ONLY_PATTERN(line) THEN rest
             ELSE IF Len(line) < MIN_LINE_LENGTH THEN rest
             ELSE <<EXTRA_WHITESPACE_sub(line)>> \o rest

clean_block(raw_text) ==
    IF raw_text = <<>> THEN <<>>
    ELSE Join(CleanLines(Split(raw_text, "\n")), <<"\n">>)

\* TextCleaner.clean: every block of the dictionary cleaned on its own
clean(ocr_results) ==
    [key \in DOMAIN ocr_results |-> clean_block(ocr_results[key])]

\* ------------------------------------------------------------------------
\* Python values of the extraction dictionaries (services/extract.py)
\* ------------------------------------------------------------------------

\* A value is None, a str, a list of str, or (from the service's JSON only)
\* a number.  s holds a str's characters, l a list's items.
None == [t |-> "none", s |-> <<>>, l |-> <<>>]
Str(x) == [t |-> "str", s |-> x, l |-> <<>>]
List(xs) == [t |-> "list", s |-> <<>>, l |-> xs]
Num == [t |-> "num", s |-> <<>>, l |-> <<>>]

\* Python truthiness: None, "" and [] are falsy (the number is non-zero)
Truthy(v) ==
    CASE v.t = "none" -> FALSE
      [] v.t = "str" -> v.s # <<>>
      [] v.t = "list" -> v.l # <<>>
      [] OTHER -> TRUE

\* Python's `a or b`
PyOr(a, b) == IF Truthy(a) THEN a ELSE b

\* [line.strip() for line in text.split('\n') if line.strip()]
RECURSIVE StripNonEmpty(_)
StripNonEmpty(lines) ==
    IF lines = <<>> THEN <<>>
    ELSE (IF Strip(Head(lines)) # <<>> THEN <<Strip(Head(lines))>> ELSE <<>>)
         \o StripNonEmpty(Tail(lines))
StrippedLines(text) == StripNonEmpty(Split(text, "\n"))

\* any(kw in s for kw in kws)
AnyContained(kws, s) == \E k \in 1..Len(kws) : Contains(kws[k], s)

\* ------------------------------------------------------------------------
\* Brand and product name (fallback heuristics)
\* ------------------------------------------------------------------------

KNOWN_BRANDS == <<
    <<"T","O","N","Y","M","O","L","Y">>,
    <<"L","A","N","E","I","G","E">>,
    <<"A","M","O","R","E","P","A","C","I","F","I","C">>,
    <<"I","N","N","I","S","F","R","E","E">>,
    <<"E","T","U","D","E"," ","H","O","U","S","E">>,
    <<"C","O","S","R","X">>,
    <<"P","U","R","I","T","O">>,
    <<"I","S","N","T","R","E","E">>,
    <<"R","O","U","N","D"," ","L","A","B">>,
    <<"S","K","I","N"," ","F","U","N","C","T","I","O","N","A","L">>,
    <<"D","O","V","E">>,
    <<"N","I","V","E","A">>,
    <<"V","A","S","E","L","I","N","E">>,
    <<"C","E","T","A","P","H","I","L">>,
    <<"C","e","r","a","V","e">>,
    <<"N","e","u","t","r","o","g","e","n","a">>,
    <<"O","l","a","y">>,
    <<"L","'","O","r","e","a","l">>,
    <<"M","a","y","b","e","l","l","i","n","e">>,
    <<"L","o","r","e","a","l">>
>>

skip_keywords == <<
    <<"w","a","r","n","i","n","g">>,
    <<"c","o","n","t","a","i","n","s">>,
    <<"n","o","u","r","i","s","h","i","n","g">>,
    <<"b","o","u","n","c","y">>,
    <<"m","o","i","s","t">>,
    <<"f","o","r">>
>>

\* the loop of extract_brand that collects all_caps_candidates
BrandCandidate(line) ==
    /\ IsUpperStr(line)
    /\ 2 <= Len(line) /\ Len(line) <= 20
    /\ ~AnyContained(skip_keywords, StrLower(line))
    /\ ~(Len(line) <= 2)

RECURSIVE all_caps_candidates(_)
all_caps_candidates(lines) ==
    IF lines = <<>> THEN <<>>
    ELSE (IF BrandCandidate(Head(lines)) THEN <<Head(lines)>> ELSE <<>>)
         \o all_caps_candidates(Tail(lines))

\* for brand in KNOWN_BRANDS: if brand in text_upper: return brand
KnownBrandHits(text) ==
    {k \in 1..Len(KNOWN_BRANDS) : Contains(KNOWN_BRANDS[k], StrUpper(text))}

extract_brand(text) ==
    IF text = <<>> THEN None
    ELSE IF KnownBrandHits(text) # {}
    THEN Str(KNOWN_BRANDS[CHOOSE k \in KnownBrandHits(text) :
                              \A j \in KnownBrandHits(text) : k <= j])
    ELSE LET cands == all_caps_candidates(StrippedLines(text))
         IN  IF cands # <<>> /\ Len(cands[1]) >= 3 THEN Str(cands[1]) ELSE None

\* re.match(r'^[0-9\W]+$', line) on a stripped, non-empty line
PureNumberLine(line) ==
    /\ line # <<>>
    /\ \A i \in 1..Len(line) : line[i] \in Digit \/ line[i] \notin Letter \cup Digit \cup {"_"}

\* the skips of extract_product_name's loop
ProductNameSkipped(line) ==
    \/ Len(line) < 3
    \/ PureNumberLine(line)
    \/ (Len(line) > 40 /\ IsUpperStr(line))
    \/ (IsUpperStr(line) /\ WordCount(line) = 1)

\* a variant that answers with a sentinel when no line survives
FirstProductLine_sentinel(lines) ==
    IF \A i \in 1..Len(lines) : ProductNameSkipped(lines[i])
    THEN Str(<<"U","n","k","n","o","w","n"," ","P","r","o","d","u","c","t">>)
    ELSE Str(lines[CHOOSE i \in 1..Len(lines) :
                      /\ ~ProductNameSkipped(lines[i])
                      /\ \A j \in 1..(i - 1) : ProductNameSkipped(lines[j])])

RECURSIVE FirstProductLine(_)
FirstProductLine(lines) ==
    IF lines = <<>> THEN None
    ELSE IF ProductNameSkipped(Head(lines)) THEN FirstProductLine(Tail(lines))
    ELSE Str(Head(lines))

extract_product_name(text) ==
    IF text = <<>> THEN None
    ELSE LET lines == StrippedLines(text)
         IN  FirstProductLine(Sub(lines, 1, IF Len(lines) < 15 THEN Len(lines) ELSE 15))

\* ------------------------------------------------------------------------
\* Dates (regex search over the back text)
\* ------------------------------------------------------------------------

\* The keyword alternatives of the two patterns, in the order the regex
\* tries them.  A keyword is a sequence of words joined by \s*; `expires?`
\* is tried with the s first.
ExpiryKeywords == <<
    << <<"e","x","p">> >>,
    << <<"e","x","p","i","r","y">> >>,
    << <<"e","x","p","i","r","e","s">> >>,
    << <<"e","x","p","i","r","e">> >>,
    << <<"b","e","s","t">>, <<"b","e","f","o","r","e">> >>,
    << <<"u","s","e">>, <<"b","y">> >>
>>
MfgKeywords == <<
    << <<"m","f","g">> >>,
    << <<"m","a","n","u","f","a","c","t","u","r","e","d">> >>,
    << <<"p","r","o","d">> >>,
    << <<"p","r","o","d","u","c","t","i","o","n">> >>,
    << <<"d","a","t","e">>, <<"o","f">> >>
>>

DateSep == {"/", "-"}

\* the position after keyword `words` matched (re.IGNORECASE) at i, or 0
RECURSIVE KeywordEnd(_, _, _)
KeywordEnd(low, i, words) ==
    IF words = <<>> THEN i
    ELSE IF OccursAt(Head(words), low, i)
    THEN LET j == i + Len(Head(words))
         IN  IF Len(words) = 1 THEN j
             ELSE KeywordEnd(low, j + RunLen(low, j, White), Tail(words))
    ELSE 0

\* [0-9]{1,2}[/-][0-9]{1,2}[/-][0-9]{2,4} at p: the last position matched,
\* or 0.  Each count is greedy; a digit run longer than 2 in the first two
\* places cannot be followed by a separator.
NumericDateEnd(s, p) ==
    LET r1 == RunLen(s, p, Digit)
        p2 == p + r1 + 1
        r2 == RunLen(s, p2, Digit)
        p3 == p2 + r2 + 1
        r3 == RunLen(s, p3, Digit)
    IN  IF /\ r1 \in {1, 2}
           /\ RunLen(s, p + r1, DateSep) >= 1
           /\ r2 \in {1, 2}
           /\ RunLen(s, p2 + r2, DateSep) >= 1
           /\ r3 >= 2
        THEN p3 + (IF r3 > 4 THEN 4 ELSE r3) - 1
        ELSE 0

\* [A-Za-z]+\s+[0-9]{4} at p: the last position matched, or 0
TextDateEnd(s, p) ==
    LET a == RunLen(s, p, Letter)
        w == RunLen(s, p + a, White)
        d == RunLen(s, p + a + w, Digit)
    IN  IF a >= 1 /\ w >= 1 /\ d >= 4 THEN p + a + w + 3 ELSE 0

\* the capture group at p: numeric alternative first, then the textual one
DateTokenAt(s, p) ==
    IF NumericDateEnd(s, p) > 0 THEN Sub(s, p, NumericDateEnd(s, p))
    ELSE IF TextDateEnd(s, p) > 0 THEN Sub(s, p, TextDateEnd(s, p))
    ELSE <<>>

\* the pattern tried at start i: the first keyword alternative after which
\* [:\s]* and a date token follow; <<>> when none does
RECURSIVE DateMatchAt(_, _, _, _)
DateMatchAt(s, low, i, kws) ==
    IF kws = <<>> THEN <<>>
    ELSE LET e == KeywordEnd(low, i, Head(kws))
             p == e + RunLen(s, e, White \cup {":"})
         IN  IF e > 0 /\ DateTokenAt(s, p) # <<>> THEN DateTokenAt(s, p)
             ELSE DateMatchAt(s, low, i, Tail(kws))

\* pattern.search(back_text).group(1): the leftmost start wins
DateSearch(s, kws) ==
    LET low == StrLower(s)
        hits == {i \in 1..Len(s) : DateMatchAt(s, low, i, kws) # <<>>}
    IN  IF hits = {} THEN <<>>
        ELSE DateMatchAt(s, low, CHOOSE i \in hits : \A j \in hits : i <= j, kws)

\* parts[2] = "20" + parts[2] for a 2-digit year; separators become "/"
NormalizeNumeric(raw) ==
    LET r1 == RunLen(raw, 1, Digit)
        p2 == r1 + 2
        r2 == RunLen(raw, p2, Digit)
        p3 == p2 + r2 + 1
        year == Sub(raw, p3, Len(raw))
    IN  Sub(raw, 1, r1) \o <<"/">> \o Sub(raw, p2, p2 + r2 - 1) \o <<"/">>
        \o (IF Len(year) = 2 THEN <<"2","0">> \o year ELSE year)

\* a variant that answers a missing date with a default
NormalizeDate_default(raw_date) ==
    IF raw_date = <<>> THEN Str(<<"0","1","/","0","1","/","2","0","3","0">>)
    ELSE Str(raw_date)

\* the body of extract_dates' loop for one key
NormalizeDate(raw_date) ==
    IF raw_date = <<>> THEN None
    ELSE IF NumericDateEnd(raw_date, 1) = Len(raw_date)
    THEN Str(NormalizeNumeric(raw_date))
    ELSE Str(raw_date)

extract_dates(back_text) ==
    IF back_text = <<>> THEN [expiry_date |-> None, mfg_date |-> None]
    ELSE [expiry_date |-> NormalizeDate(DateSearch(back_text, ExpiryKeywords)),
          mfg_date |-> NormalizeDate(DateSearch(back_text, MfgKeywords))]

\* ------------------------------------------------------------------------
\* Ingredients and warnings
\* ------------------------------------------------------------------------

IngredientWord == <<"i","n","g","r","e","d","i","e","n","t">>

\* where the group (.+?) starts for a match beginning at i, or 0: after
\* `ingredients?`, the greedy [:\s]* and \n?, leaving one character for
\* the group (the regex backtracks to give one back)
IngredientBlockStart(s, low, i) ==
    IF ~OccursAt(IngredientWord, low, i) THEN 0
    ELSE LET n == Len(s)
             a0 == i + Len(IngredientWord)
             withS == a0 <= n /\ low[a0] = "s"
             a1 == IF withS THEN a0 + 1 ELSE a0
             m == RunLen(s, a1, White \cup {":"})
         IN  IF a1 + m <= n THEN a1 + m
             ELSE IF m >= 1 THEN n
             ELSE IF withS THEN a0
             ELSE 0

\* (?:\n\s*\n|\n[A-Z][a-z]+:|$) at position e (the first character after
\* the group); with IGNORECASE both letter classes are all letters
IngredientBlockStop(s, e) ==
    LET n == Len(s)
    IN  \/ /\ e <= n /\ s[e] = "\n"
           /\ LET w == RunLen(s, e + 1, White)
              IN  \E j \in (e + 1)..(e + w) : s[j] = "\n"
        \/ /\ e <= n /\ s[e] = "\n"
           /\ LET a == RunLen(s, e + 1, Letter)
              IN  a >= 2 /\ e + 1 + a <= n /\ s[e + 1 + a] = ":"
        \/ e = n + 1
        \/ e = n /\ s[n] = "\n"

\* match.group(1) of the leftmost match, or <<>> with found = FALSE
IngredientBlock(s) ==
    LET low == StrLower(s)
        hits == {i \in 1..Len(s) : IngredientBlockStart(s, low, i) > 0}
    IN  IF hits = {} THEN [found |-> FALSE, block |-> <<>>]
        ELSE LET i == CHOOSE h \in hits : \A j \in hits : h <= j
                 p == IngredientBlockStart(s, low, i)
                 stops == {e \in (p + 1)..(Len(s) + 1) : IngredientBlockStop(s, e)}
                 e == CHOOSE x \in stops : \A y \in stops : x <= y
             IN  [found |-> TRUE, block |-> Sub(s, p, e - 1)]

\* p.strip().strip('•').strip('-').strip('*') for p in parts
\*     if p.strip() and len(p.strip()) > 2
RECURSIVE IngredientItems(_)
IngredientItems(parts) ==
    IF parts = <<>> THEN <<>>
    ELSE LET p == Strip(Head(parts))
         IN  (IF p # <<>> /\ Len(p) > 2
              THEN <<StripChars(StripChars(StripChars(p, {"BULLET"}), {"-"}), {"*"})>>
              ELSE <<>>) \o IngredientItems(Tail(parts))

extract_ingredients(back_text) ==
    IF back_text = <<>> THEN <<>>
    ELSE LET m == IngredientBlock(back_text)
         IN  IF ~m.found THEN <<>>
             ELSE LET items == IngredientItems(SplitRuns(m.block, {",", ";", "\n"}))
                  IN  Sub(items, 1, IF Len(items) < 30 THEN Len(items) ELSE 30)

WARNING_KEYWORDS == <<
    <<"w","a","r","n","i","n","g">>,
    <<"m","a","y"," ","c","o","n","t","a","i","n">>,
    <<"c","o","n","t","a","i","n","s">>,
    <<"a","l","l","e","r","g","e","n">>,
    <<"n","o","t"," ","s","u","i","t","a","b","l","e">>,
    <<"c","a","u","t","i","o","n">>,
    <<"r","i","s","k">>,
    <<"e","x","t","e","r","n","a","l"," ","u","s","e">>,
    <<"a","v","o","i","d"," ","e","y","e","s">>,
    <<"k","e","e","p"," ","a","w","a","y">>,
    <<"d","o"," ","n","o","t"," ","i","n","g","e","s","t">>,
    <<"p","a","t","c","h"," ","t","e","s","t">>
>>

RECURSIVE WarningLines(_)
WarningLines(lines) ==
    IF lines = <<>> THEN <<>>
    ELSE LET line == Head(lines)
             cleaned == Strip(line)
         IN  (IF /\ AnyContained(WARNING_KEYWORDS, StrLower(line))
                 /\ cleaned # <<>> /\ Len(cleaned) > 3
              THEN <<cleaned>> ELSE <<>>) \o WarningLines(Tail(lines))

extract_warnings(back_text) ==
    IF back_text = <<>> THEN <<>>
    ELSE WarningLines(Split(back_text, "\n"))

\* ------------------------------------------------------------------------
\* Confidence (hundredths)
\* ------------------------------------------------------------------------

\* the scoring with a bonus for the manufacturing date and thin scans halved
compute_confidence_thin_halved(front_text, back_text, extracted) ==
    IF ~Truthy(extracted.product_name) THEN 0
    ELSE LET score == 40
                 + (IF Truthy(extracted.brand) THEN 25 ELSE 0)
                 + (IF Truthy(extracted.expiry_date) THEN 20 ELSE 0)
                 + (IF Truthy(extracted.mfg_date) THEN 5 ELSE 0)
                 + (IF Truthy(extracted.ingredients) THEN 10 ELSE 0)
                 + (IF Truthy(extracted.warnings) THEN 5 ELSE 0)
             capped == IF score < 100 THEN score ELSE 100
         IN  IF Len(front_text) + Len(back_text) < 50 THEN capped \div 2
             ELSE capped

\* the scoring with a brand counting against a product that has no expiry date
compute_confidence_brand_costs(front_text, back_text, extracted) ==
    IF ~Truthy(extracted.product_name) THEN 0
    ELSE LET score == 40
                 + (IF Truthy(extracted.brand)
                    THEN (IF Truthy(extracted.expiry_date) THEN 25 ELSE 0 - 25)
                    ELSE 0)
                 + (IF Truthy(extracted.expiry_date) THEN 20 ELSE 0)
                 + (IF Truthy(extracted.ingredients) THEN 10 ELSE 0)
                 + (IF Truthy(extracted.warnings) THEN 5 ELSE 0)
         IN  IF score < 100 THEN score ELSE 100

compute_confidence(front_text, back_text, extracted) ==
    IF ~Truthy(extracted.product_name) THEN 0
    ELSE LET score == 40
                 + (IF Truthy(extracted.brand) THEN 25 ELSE 0)
                 + (IF Truthy(extracted.expiry_date) THEN 20 ELSE 0)
                 + (IF Truthy(extracted.ingredients) THEN 10 ELSE 0)
                 + (IF Truthy(extracted.warnings) THEN 5 ELSE 0)
         IN  IF score < 100 THEN score ELSE 100

\* ------------------------------------------------------------------------
\* The generative-text service and extract_with_gemini
\* ------------------------------------------------------------------------

\* The six-key dictionary both tiers fill; a key the service's JSON leaves
\* out reads as None through dict.get.
FieldNames == {"product_name", "brand", "expiry_date", "mfg_date",
               "ingredients", "warnings"}

EmptyFields == [product_name |-> None, brand |-> None, expiry_date |-> None,
                mfg_date |-> None, ingredients |-> List(<<>>),
                warnings |-> List(<<>>)]

\* A JSON object as the service wrote it, before the arrays are defaulted
NoKeys == [product_name |-> None, brand |-> None, expiry_date |-> None,
           mfg_date |-> None, ingredients |-> None, warnings |-> None]

\* response.text is a sequence of chunks: whitespace, prose, the fences
\* ```json and ```, and JSON text: a complete object, an object cut off
\* inside its ingredients array, or a complete value that is no object.
Chunk(kind, obj) == [k |-> kind, obj |-> obj]
WS == Chunk("ws", NoKeys)
PROSE == Chunk("prose", NoKeys)
FENCE_JSON == Chunk("fence_json", NoKeys)
FENCE == Chunk("fence", NoKeys)
ARRAY == Chunk("array", NoKeys)
OBJECT(obj) == Chunk("object", obj)
TRUNCATED(obj) == Chunk("truncated", obj)

\* text.split(marker)[1] and [0] over chunks: the chunks after the first
\* marker, and those before the first marker (`stops` are the chunks in
\* which the marker text occurs)
AfterFirst(chunks, stops) ==
    LET at == {i \in 1..Len(chunks) : chunks[i].k \in stops}
        cut == Sub(chunks, 1 + (CHOOSE i \in at : \A j \in at : i <= j), Len(chunks))
        nxt == {i \in 1..Len(cut) : cut[i].k \in stops}
    IN  IF nxt = {} THEN cut
        ELSE Sub(cut, 1, (CHOOSE i \in nxt : \A j \in nxt : i <= j) - 1)
BeforeFirst(chunks, stops) ==
    LET at == {i \in 1..Len(chunks) : chunks[i].k \in stops}
    IN  IF at = {} THEN chunks
        ELSE Sub(chunks, 1, (CHOOSE i \in at : \A j \in at : i <= j) - 1)

\* lines 134-137: take what stands inside the first fence
Unfence(chunks) ==
    IF \E i \in 1..Len(chunks) : chunks[i].k = "fence_json"
    THEN BeforeFirst(AfterFirst(chunks, {"fence_json"}), {"fence", "fence_json"})
    ELSE IF \E i \in 1..Len(chunks) : chunks[i].k = "fence"
    THEN BeforeFirst(AfterFirst(chunks, {"fence"}), {"fence"})
    ELSE chunks

\* json.loads: one complete JSON value between optional whitespace
json_loads(chunks) ==
    LET body == SelectSeq(chunks, LAMBDA c : c.k # "ws")
    IN  IF Len(body) = 1 /\ body[1].k \in {"object", "array"}
        THEN [ok |-> TRUE, value |-> body[1]]
        ELSE [ok |-> FALSE, value |-> ARRAY]

\* The service as one call sees it: whether the module-level `model` was
\* initialised, and what generate_content does when called.
Service(configured, raises, text) ==
    [configured |-> configured, raises |-> raises, text |-> text]

\* a variant that answers a failed pass with a placeholder product name
extract_with_gemini_placeholder(ocr_text, svc) ==
    [result |-> [EmptyFields EXCEPT !.product_name = Str(<<"U","n","k","n","o","w","n">>)],
     called |-> svc.configured]

\* extract_with_gemini: the dictionary returned and whether the service
\* was called
extract_with_gemini(ocr_text, svc) ==
    IF ocr_text = <<>> \/ Len(Strip(ocr_text)) < 5
    THEN [result |-> EmptyFields, called |-> FALSE]
    ELSE IF ~svc.configured
    THEN [result |-> EmptyFields, called |-> FALSE]
    ELSE IF svc.raises
    THEN [result |-> EmptyFields, called |-> TRUE]
    ELSE LET parsed == json_loads(Unfence(svc.text))
         IN  IF ~parsed.ok \/ parsed.value.k # "object"
             THEN [result |-> EmptyFields, called |-> TRUE]
             ELSE LET obj == parsed.value.obj
                  IN  [result |-> [obj EXCEPT
                            !.ingredients = PyOr(obj.ingredients, List(<<>>)),
                            !.warnings = PyOr(obj.warnings, List(<<>>))],
                       called |-> TRUE]

\* ------------------------------------------------------------------------
\* extract_from_pipeline
\* ------------------------------------------------------------------------

\* A returned dictionary: `keys` are the keys it holds; a value field whose
\* key is absent is None, failure_reason "absent", scannedAt 0.
SixKeys == FieldNames \cup {"confidence"}

NullResult(keys, reason) ==
    [keys |-> keys,
     product_name |-> None, brand |-> None, expiry_date |-> None,
     mfg_date |-> None, ingredients |-> List(<<>>), warnings |-> List(<<>>),
     confidence |-> 0, summary |-> None, scannedAt |-> 0,
     failure_reason |-> reason]

\* f"{front_text}\n{back_text}".strip()
CombinedText(front_text, back_text) == Strip(front_text \o <<"\n">> \o back_text)

\* lines 423-435: the regex dates fill what the service left falsy
MergeDates(g, back_text) ==
    LET regex_dates == extract_dates(back_text)
        g1 == IF ~Truthy(g.expiry_date) /\ Truthy(regex_dates.expiry_date)
              THEN [g EXCEPT !.expiry_date = regex_dates.expiry_date] ELSE g
    IN  IF ~Truthy(g1.mfg_date) /\ Truthy(regex_dates.mfg_date)
        THEN [g1 EXCEPT !.mfg_date = regex_dates.mfg_date] ELSE g1

\* lines 448-460: the heuristics fill what is still falsy
FillProductName(extracted, heur_product) ==
    IF ~Truthy(extracted.product_name) /\ Truthy(heur_product)
    THEN [extracted EXCEPT !.product_name = heur_product] ELSE extracted

\* a variant in which the heuristic brand overrides the service's
FillBrand_heuristic_wins(extracted, heur_brand) ==
    IF Truthy(heur_brand)
    THEN [extracted EXCEPT !.brand = heur_brand] ELSE extracted

FillBrand(extracted, heur_brand) ==
    IF ~Truthy(extracted.brand) /\ Truthy(heur_brand)
    THEN [extracted EXCEPT !.brand = heur_brand] ELSE extracted

FillIngredients(extracted, back_text) ==
    IF ~Truthy(extracted.ingredients)
    THEN [extracted EXCEPT !.ingredients = List(extract_ingredients(back_text))]
    ELSE extracted

FillWarnings(extracted, back_text) ==
    IF ~Truthy(extracted.warnings)
    THEN [extracted EXCEPT !.warnings = List(extract_warnings(back_text))]
    ELSE extracted

HeuristicFallbacks(extracted, front_text, back_text, combined_text) ==
    FillWarnings(
        FillIngredients(
            FillBrand(
                FillProductName(extracted,
                    PyOr(extract_product_name(front_text),
                         extract_product_name(combined_text))),
                PyOr(extract_brand(front_text), extract_brand(combined_text))),
            back_text),
        back_text)

\* repr() of a list of str, as an f-string prints it
RECURSIVE ReprItems(_)
ReprItems(xs) ==
    IF xs = <<>> THEN <<>>
    ELSE <<"'">> \o Head(xs) \o <<"'">>
         \o (IF Len(xs) > 1 THEN <<",", " ">> ELSE <<>>) \o ReprItems(Tail(xs))
\* what an f-string prints for a value
Format(v) ==
    CASE v.t = "str" -> v.s
      [] v.t = "num" -> <<"5">>
      [] v.t = "list" -> <<"[">> \o ReprItems(v.l) \o <<"]">>
      [] OTHER -> <<"N","o","n","e">>

\* lines 466-473: summary_parts and ". ".join, which raises TypeError on
\* an item that is no str
SummaryParts(extracted) ==
    (IF Truthy(extracted.product_name) THEN <<extracted.product_name>>
     ELSE IF Truthy(extracted.brand) THEN <<extracted.brand>>
     ELSE <<>>)
    \o (IF Truthy(extracted.expiry_date)
        THEN <<Str(<<"E","x","p","i","r","e","s"," ">> \o Format(extracted.expiry_date))>>
        ELSE <<>>)

Summary(extracted) ==
    LET parts == SummaryParts(extracted)
    IN  IF \E i \in 1..Len(parts) : parts[i].t # "str"
        THEN [raises |-> TRUE, value |-> None]
        ELSE [raises |-> FALSE,
              value |-> IF parts = <<>> THEN None
                        ELSE Str(Join([i \in 1..Len(parts) |-> parts[i].s], <<".", " ">>))]

\* a variant without the except clause: the error leaves the function
ExtractionFailed_uncaught(reason) ==
    [ret |-> NullResult(SixKeys, "absent"), raised |-> TRUE]

\* the except clause of extract_from_pipeline (lines 489-500)
ExtractionFailed(reason) ==
    [ret |-> NullResult(SixKeys \cup {"failure_reason"}, reason), raised |-> FALSE]

\* a variant whose confidence wears off as the clock advances
Formatted_clocked(extracted, confidence, summary, now) ==
    [keys |-> SixKeys \cup {"summary", "scannedAt"},
     product_name |-> extracted.product_name,
     brand |-> extracted.brand,
     expiry_date |-> extracted.expiry_date,
     mfg_date |-> extracted.mfg_date,
     ingredients |-> extracted.ingredients,
     warnings |-> extracted.warnings,
     confidence |-> IF confidence >= now THEN confidence - now ELSE 0,
     summary |-> summary,
     scannedAt |-> now,
     failure_reason |-> "absent"]

\* lines 477-487: the dictionary of a completed extraction
Formatted(extracted, confidence, summary, now) ==
    [keys |-> SixKeys \cup {"summary", "scannedAt"},
     product_name |-> extracted.product_name,
     brand |-> extracted.brand,
     expiry_date |-> extracted.expiry_date,
     mfg_date |-> extracted.mfg_date,
     ingredients |-> extracted.ingredients,
     warnings |-> extracted.warnings,
     confidence |-> confidence,
     summary |-> summary,
     scannedAt |-> now,
     failure_reason |-> "absent"]

\* lines 462-487: score, summarise (which may raise) and format
ScoreAndFormat(extracted, summary, front_text, back_text, now) ==
    IF summary.raises THEN ExtractionFailed("TypeError")
    ELSE [ret |-> Formatted(extracted,
                            compute_confidence(front_text, back_text, extracted),
                            summary.value, now),
          raised |-> FALSE]

\* lines 420-487 once the service pass `ai` has answered
AfterServicePass(ai, extracted, front_text, back_text, now) ==
    [out |-> ScoreAndFormat(extracted, Summary(extracted), front_text, back_text, now),
     gemini |-> ai.result, called |-> ai.called]

Extracting(front_text, back_text, combined_text, ai, now) ==
    AfterServicePass(ai,
        HeuristicFallbacks(MergeDates(ai.result, back_text),
                           front_text, back_text, combined_text),
        front_text, back_text, now)

TooShort(combined_text) == combined_text = <<>> \/ Len(combined_text) < 5

\* extract_from_pipeline(front_text, back_text) with the service `svc` and
\* the clock reading `now`: the dictionary returned and whether an exception
\* left the function (out.ret, out.raised), the dictionary of the service
\* pass (gemini) and whether the service was called (called)
ExtractCombined(front_text, back_text, combined_text, svc, now) ==
    IF TooShort(combined_text)
    THEN [out |-> [ret |-> NullResult(SixKeys, "absent"), raised |-> FALSE],
          gemini |-> EmptyFields, called |-> FALSE]
    ELSE Extracting(front_text, back_text, combined_text,
                    extract_with_gemini(combined_text, svc), now)

extract_from_pipeline(front_text, back_text, svc, now) ==
    ExtractCombined(front_text, back_text, CombinedText(front_text, back_text), svc, now)

\* ------------------------------------------------------------------------
\* ImageValidator and RegionSplitter
\* ------------------------------------------------------------------------

\* An image byte buffer, by what decoding it gives: whether it decodes,
\* its height and width, the variance of its Laplacian, and the mean and
\* the standard deviation of its grey levels (0..255).
Image(decodable, h, w, laplacian_var, mean_gray, std_gray) ==
    [decodable |-> decodable, h |-> h, w |-> w, laplacian_var |-> laplacian_var,
     mean_gray |-> mean_gray, std_gray |-> std_gray]

MIN_RESOLUTION == 720
\* thresholds in hundredths
MIN_BLUR_SCORE == 10
MIN_BRIGHTNESS == 8
MAX_BRIGHTNESS == 98
MIN_CONTRAST == 5

NoMetrics == [has |-> FALSE, resolution |-> <<0, 0>>, blur_score |-> 0,
              brightness |-> 0, contrast |-> 0]

\* ImageValidator.validate; the scores are kept in hundredths, rounded
\* down, and compared exactly (x / 255 < t / 100 as 100 x < 255 t)
validate(image) ==
    IF ~image.decodable
    THEN [is_valid |-> FALSE, issues |-> <<"Cannot read image">>, metrics |-> NoMetrics]
    ELSE LET issues ==
                 (IF image.h * image.w < MIN_RESOLUTION * MIN_RESOLUTION
                  THEN <<"Image resolution too low">> ELSE <<>>)
              \o (IF image.laplacian_var * 100 < MIN_BLUR_SCORE * 500
                  THEN <<"Image is blurry">> ELSE <<>>)
              \o (IF image.mean_gray * 100 < MIN_BRIGHTNESS * 255
                  THEN <<"Too dark">>
                  ELSE IF image.mean_gray * 100 > MAX_BRIGHTNESS * 255
                  THEN <<"Too bright or washed out">> ELSE <<>>)
              \o (IF image.std_gray * 100 < MIN_CONTRAST * 255
                  THEN <<"Low contrast">> ELSE <<>>)
         IN  [is_valid |-> Len(issues) = 0,
              issues |-> issues,
              metrics |-> [has |-> TRUE,
                           resolution |-> <<image.h, image.w>>,
                           blur_score |-> IF image.laplacian_var >= 500 THEN 100
                                          ELSE (image.laplacian_var * 100) \div 500,
                           brightness |-> (image.mean_gray * 100) \div 255,
                           contrast |-> (image.std_gray * 100) \div 255]]

\* ratios in hundredths
FRONT_RATIO == 40
BACK_RATIO == 40

\* the split with the boundaries rounded to the nearest row
split_rounded(h) ==
    LET front_end == (h * FRONT_RATIO + 50) \div 100
        back_start == (h * (100 - BACK_RATIO) + 50) \div 100
    IN  [front_region |-> [from |-> 0, to |-> front_end],
         back_region |-> [from |-> back_start, to |-> h],
         middle_region |-> [from |-> front_end, to |-> back_start],
         full_image |-> [from |-> 0, to |-> h],
         metadata |-> [front_end_y |-> front_end, back_start_y |-> back_start]]

\* RegionSplitter.split on an image of h rows: the row ranges [from, to)
split(h) ==
    LET front_end == (h * FRONT_RATIO) \div 100
        back_start == (h * (100 - BACK_RATIO)) \div 100
    IN  [front_region |-> [from |-> 0, to |-> front_end],
         back_region |-> [from |-> back_start, to |-> h],
         middle_region |-> [from |-> front_end, to |-> back_start],
         full_image |-> [from |-> 0, to |-> h],
         metadata |-> [front_end_y |-> front_end, back_start_y |-> back_start]]

\* region.shape
Shape(region, w) == <<region.to - region.from, w, 3>>

NORMALIZED_WIDTH == 1024

\* ImageNormalizer.normalize on a buffer that decodes: the shape of the
\* array it returns (the orientation of the image is left out of the model)
normalize(img) ==
    <<(NORMALIZED_WIDTH * img.h) \div img.w, NORMALIZED_WIDTH, 3>>

\* ------------------------------------------------------------------------
\* Inputs
\* ------------------------------------------------------------------------

\* clock readings datetime.utcnow() may give
MaxClock == 2
Clock == 1..MaxClock

\* values the service may put in its JSON
A_NAME == <<"T","o","n","e","r">>
A_BRAND == <<"O","l","a","y">>
A_ING == <<"A","q","u","a">>
A_UNKNOWN == <<"U","n","k","n","o","w","n">>

GoodObject ==
    [product_name |-> Str(A_NAME),
     brand |-> Str(A_BRAND),
     expiry_date |-> Str(<<"J","a","n"," ","2","0","2","7">>),
     mfg_date |-> Str(<<"M","a","r"," ","2","0","2","0">>),
     ingredients |-> List(<<A_ING, <<"G","l","y","c","e","r","i","n">> >>),
     warnings |-> List(<< <<"K","e","e","p"," ","d","r","y">> >>)]

ServiceOff == Service(FALSE, FALSE, <<>>)
ServiceRaises == Service(TRUE, TRUE, <<>>)
ServiceSays(text) == Service(TRUE, FALSE, text)

\* ------------------------------------------------------------------------
\* State
\* ------------------------------------------------------------------------

VARIABLES
    pc,                  \* where the running operation stands
    image,               \* process: the image bytes given
    validation,          \* process: the report of ImageValidator.validate
    validation_penalty,  \* process: 30 once validation failed, else 0
    regions,             \* process: what RegionSplitter.split returned
    ocr,                 \* process: front_ocr, back_ocr, full_ocr
    cleaned,             \* process: front_text, back_text after TextCleaner
    extraction,          \* the call of extract_from_pipeline and its outcome
    result,              \* process: the dictionary it builds and returns
    stages,              \* the collaborators called so far, in order
    svc_calls,           \* calls of the service's generate_content so far
    call,                \* a single function applied to an input
    requests,            \* /scan: each request's arguments, locals and response
    uploads,             \* /scan: the files of the uploads directory
    scan_history         \* /scan: the rows of the scan_history table

vars == <<pc, image, validation, validation_penalty, regions, ocr, cleaned,
          extraction, result, stages, svc_calls, call, requests, uploads,
          scan_history>>

NoValidation == [done |-> FALSE, is_valid |-> FALSE, issues |-> <<>>, metrics |-> NoMetrics]
NoRegions == [done |-> FALSE, split |-> split(0)]
NoOcr == [done |-> FALSE, text |-> <<>>, runs |-> <<>>]
NoCleaned == [done |-> FALSE, front_text |-> <<>>, back_text |-> <<>>]
NoExtraction == [done |-> FALSE, front_text |-> <<>>, back_text |-> <<>>,
                 svc |-> ServiceOff, now |-> 0,
                 out |-> [out |-> [ret |-> NullResult({}, "absent"), raised |-> FALSE],
                          gemini |-> EmptyFields, called |-> FALSE]]
NoCall == [fn |-> "none"]

\* result["pipeline"] = {}
EmptyTrace ==
    [validation |-> NoValidation,
     regions |-> [has |-> FALSE, front_shape |-> <<0, 0, 0>>,
                  back_shape |-> <<0, 0, 0>>, original_shape |-> <<0, 0, 0>>],
     ocr |-> [has |-> FALSE, front_text_length |-> 0, back_text_length |-> 0,
              full_text_length |-> 0],
     raw_text |-> [has |-> FALSE, front |-> <<>>, back |-> <<>>]]

\* lines 44-53 of process
InitialResult ==
    [dict |-> NullResult(SixKeys \cup {"pipeline"}, "absent"), pipeline |-> EmptyTrace]

\* every variable but pc and image before an operation has run
Fresh ==
    /\ validation = NoValidation
    /\ validation_penalty = 0
    /\ regions = NoRegions
    /\ ocr = [front |-> NoOcr, back |-> NoOcr, full |-> NoOcr]
    /\ cleaned = NoCleaned
    /\ extraction = NoExtraction
    /\ result = InitialResult
    /\ stages = <<>>
    /\ svc_calls = 0
    /\ call = NoCall
    /\ requests = <<>>
    /\ uploads = <<>>
    /\ scan_history = <<>>

Init ==
    /\ pc = "start"
    /\ image \in {Image(TRUE, 1000, 800, 600, 128, 60),
                  Image(TRUE, 1000, 800, 40, 128, 60),
                  Image(TRUE, 100, 100, 300, 10, 5),
                  Image(TRUE, 2, 2, 0, 255, 0),
                  Image(FALSE, 0, 0, 0, 0, 0)}
    /\ Fresh

\* ------------------------------------------------------------------------
\* LabelVisionPipeline.process, one action per stage
\* ------------------------------------------------------------------------

\* the except clause of process (lines 138-141): result as built so far,
\* with the failure reason
ProcessFailed(res, reason) ==
    [res EXCEPT !.dict.keys = @ \cup {"failure_reason"},
                !.dict.failure_reason = reason]

\* lines 104-108: the early return
NoTextDetected(res) ==
    [res EXCEPT !.dict.keys = @ \cup {"failure_reason"},
                !.dict.failure_reason = "Label text could not be detected. Please try a clearer image.",
                !.dict.confidence = 0]

\* a variant that returns early on empty text only
TooLittleText_empty_only(full_ocr) == Len(Strip(full_ocr)) < 1

\* line 104
TooLittleText(full_ocr) == Len(Strip(full_ocr)) < 5

\* lines 63-65
PenaltyFor(report) == IF ~report.is_valid THEN 30 ELSE 0

\* a variant without the floor at 0
Penalized_unfloored(confidence, penalty) == confidence - penalty

\* lines 125-126
Penalized(confidence, penalty) ==
    IF penalty > 0
    THEN (IF confidence - penalty > 0 THEN confidence - penalty ELSE 0)
    ELSE confidence

\* result.update(extraction)
Updated(dict, ext) ==
    [keys |-> dict.keys \cup ext.keys,
     product_name |-> ext.product_name, brand |-> ext.brand,
     expiry_date |-> ext.expiry_date, mfg_date |-> ext.mfg_date,
     ingredients |-> ext.ingredients, warnings |-> ext.warnings,
     confidence |-> ext.confidence,
     summary |-> IF "summary" \in ext.keys THEN ext.summary ELSE dict.summary,
     scannedAt |-> IF "scannedAt" \in ext.keys THEN ext.scannedAt ELSE dict.scannedAt,
     failure_reason |-> IF "failure_reason" \in ext.keys THEN ext.failure_reason
                        ELSE dict.failure_reason]

\* text[:200]
First200(text) == Sub(text, 1, IF Len(text) < 200 THEN Len(text) ELSE 200)

\* extract_text_from_array: what the engine prints, or an error. On a
\* first run the engine is free in what it reads (a region without rows may
\* also make it fail); on a run that repeats an earlier one it gives what
\* it gave then (an error where it had given no text).
OcrOutcomesNow(region) ==
    IF call.fn # "process"
    THEN [err : {FALSE},
          text : {<<>>,
                  <<" "," ","a","b","\n">>,
                  <<"D","O","V","E","\n","\n"," ","M","o","c","h","i"," "," ","T","o","n","e","r">>,
                  <<"*","*","*","\n","E","X","P",":"," ","1","2","/","0","5","/","2","6","\n","I","n","g","r","e","d","i","e","n","t","s",":"," ","W","a","t","e","r",","," ","G","l","y","c","e","r","i","n","\n","W","a","r","n","i","n","g",":"," ","A","v","o","i","d"," ","e","y","e","s">>,
                  <<"#","a","$","%","1"," ","@","!","b","*">>}]
         \cup {[err |-> TRUE, text |-> <<>>]}
    ELSE IF call.ocr[region].done
    THEN {[err |-> FALSE, text |-> call.ocr[region].runs[1].text]}
    ELSE {[err |-> TRUE, text |-> <<>>]}

\* The module-level model of extract.py is set once at import: a repeated
\* run meets the service of the earlier one.
ServicesNow ==
    IF call.fn # "process"
    THEN {ServiceOff, ServiceRaises,
          ServiceSays(<<FENCE_JSON, WS, OBJECT(GoodObject), WS, FENCE>>),
          ServiceSays(<<FENCE_JSON, WS, TRUNCATED(GoodObject)>>),
          ServiceSays(<<OBJECT([NoKeys EXCEPT !.product_name = Num])>>)}
    ELSE {call.svc}

Validate ==
    /\ pc = "start"
    /\ LET report == validate(image)
       IN  /\ validation' = [done |-> TRUE, is_valid |-> report.is_valid,
                             issues |-> report.issues, metrics |-> report.metrics]
           /\ result' = [result EXCEPT !.pipeline.validation = validation']
           /\ validation_penalty' = PenaltyFor(report)
    /\ stages' = Append(stages, "validate")
    /\ pc' = "validated"
    /\ UNCHANGED <<requests, uploads, scan_history,
                   image, regions, ocr, cleaned, extraction, svc_calls, call>>

\* a variant in which a failed validation ends the run
Decode_gated ==
    /\ pc = "validated"
    /\ stages' = Append(stages, "decode")
    /\ IF image.decodable /\ validation.is_valid
       THEN pc' = "decoded" /\ result' = result
       ELSE pc' = "done" /\ result' = ProcessFailed(result, "Image validation failed")
    /\ UNCHANGED <<requests, uploads, scan_history,
                   image, validation, validation_penalty, regions, ocr, cleaned,
                   extraction, svc_calls, call>>

\* lines 68-73: Image.open, convert, np.array
Decode ==
    /\ pc = "validated"
    /\ stages' = Append(stages, "decode")
    /\ IF image.decodable
       THEN pc' = "decoded" /\ result' = result
       ELSE pc' = "done" /\ result' = ProcessFailed(result, "cannot identify image file")
    /\ UNCHANGED <<requests, uploads, scan_history,
                   image, validation, validation_penalty, regions, ocr, cleaned,
                   extraction, svc_calls, call>>

SplitRegions ==
    /\ pc = "decoded"
    /\ regions' = [done |-> TRUE, split |-> split(image.h)]
    /\ result' = [result EXCEPT !.pipeline.regions =
           [has |-> TRUE,
            front_shape |-> Shape(regions'.split.front_region, image.w),
            back_shape |-> Shape(regions'.split.back_region, image.w),
            original_shape |-> <<image.h, image.w, 3>>]]
    /\ stages' = Append(stages, "split")
    /\ pc' = "split"
    /\ UNCHANGED <<requests, uploads, scan_history,
                   image, validation, validation_penalty, ocr, cleaned, extraction,
                   svc_calls, call>>

\* SimpleOCRClient.config: '--psm 3 --oem 3'
SimpleOCRClient_config == [psm |-> 3, oem |-> 3]

\* one run of pytesseract.image_to_string: the configuration it was given
\* and the text the engine printed
image_to_string(config, text) == [psm |-> config.psm, text |-> text]

\* one call of self.ocr_client.extract_text_from_array (lines 90-92)
OcrRegion(at, region, next) ==
    /\ pc = at
    /\ stages' = Append(stages, "ocr_" \o region)
    /\ \E o \in OcrOutcomesNow(region) :
          IF o.err
          THEN /\ pc' = "done"
               /\ result' = ProcessFailed(result, "OCR extraction failed")
               /\ ocr' = ocr
          ELSE /\ pc' = next
               /\ result' = result
               /\ ocr' = [ocr EXCEPT ![region] =
                     [done |-> TRUE, text |-> Strip(o.text),
                      runs |-> <<image_to_string(SimpleOCRClient_config, o.text)>>]]
    /\ UNCHANGED <<requests, uploads, scan_history,
                   image, validation, validation_penalty, regions, cleaned,
                   extraction, svc_calls, call>>

\* the full image read before the front region
OcrFront_full_first == OcrRegion("split", "full", "ocr_front")

OcrFront == OcrRegion("split", "front", "ocr_front")
OcrBack == OcrRegion("ocr_front", "back", "ocr_back")
OcrFull == OcrRegion("ocr_back", "full", "ocr_full")

\* lines 94-108: record the lengths, return early on too little text
CheckText ==
    /\ pc = "ocr_full"
    /\ LET traced == [result EXCEPT !.pipeline.ocr =
                        [has |-> TRUE,
                         front_text_length |-> Len(ocr.front.text),
                         back_text_length |-> Len(ocr.back.text),
                         full_text_length |-> Len(ocr.full.text)]]
       IN  IF TooLittleText(ocr.full.text)
           THEN pc' = "done" /\ result' = NoTextDetected(traced)
           ELSE pc' = "checked" /\ result' = traced
    /\ stages' = Append(stages, "check")
    /\ UNCHANGED <<requests, uploads, scan_history,
                   image, validation, validation_penalty, regions, ocr, cleaned,
                   extraction, svc_calls, call>>

\* lines 112-117: TextCleaner.clean on front and back
Clean ==
    /\ pc = "checked"
    /\ cleaned' = [done |-> TRUE,
                   front_text |-> clean_block(ocr.front.text),
                   back_text |-> clean_block(ocr.back.text)]
    /\ stages' = Append(stages, "clean")
    /\ pc' = "cleaned"
    /\ UNCHANGED <<requests, uploads, scan_history,
                   image, validation, validation_penalty, regions, ocr, extraction,
                   result, svc_calls, call>>

\* line 122: extract_from_pipeline(front_text, back_text, full_ocr)
Extract ==
    /\ pc = "cleaned"
    /\ \E svc \in ServicesNow, now \in Clock :
          /\ extraction' = [done |-> TRUE, front_text |-> cleaned.front_text,
                            back_text |-> cleaned.back_text, svc |-> svc, now |-> now,
                            out |-> extract_from_pipeline(cleaned.front_text,
                                                          cleaned.back_text, svc, now)]
          /\ svc_calls' = svc_calls + (IF extraction'.out.called THEN 1 ELSE 0)
          /\ IF extraction'.out.out.raised
             THEN pc' = "done" /\ result' = ProcessFailed(result, "TypeError")
             ELSE pc' = "extracted" /\ result' = result
    /\ stages' = Append(stages, "extract")
    /\ UNCHANGED <<requests, uploads, scan_history,
                   image, validation, validation_penalty, regions, ocr, cleaned, call>>

\* a variant that withholds the brand of an image the validator rejected
Finish_trace_feeds_back ==
    /\ pc = "extracted"
    /\ LET ext == [extraction.out.out.ret EXCEPT
                      !.confidence = Penalized(@, validation_penalty),
                      !.brand = IF result.pipeline.validation.is_valid
                                THEN @ ELSE None]
       IN  result' = [dict |-> Updated(result.dict, ext),
                      pipeline |-> [result.pipeline EXCEPT !.raw_text =
                          [has |-> TRUE,
                           front |-> First200(cleaned.front_text),
                           back |-> First200(cleaned.back_text)]]]
    /\ stages' = Append(stages, "penalty")
    /\ pc' = "done"
    /\ UNCHANGED <<requests, uploads, scan_history,
                   image, validation, validation_penalty, regions, ocr, cleaned,
                   extraction, svc_calls, call>>

\* lines 125-136: penalty, merge, raw_text, return
Finish ==
    /\ pc = "extracted"
    /\ LET ext == [extraction.out.out.ret EXCEPT
                      !.confidence = Penalized(@, validation_penalty)]
       IN  result' = [dict |-> Updated(result.dict, ext),
                      pipeline |-> [result.pipeline EXCEPT !.raw_text =
                          [has |-> TRUE,
                           front |-> First200(cleaned.front_text),
                           back |-> First200(cleaned.back_text)]]]
    /\ stages' = Append(stages, "penalty")
    /\ pc' = "done"
    /\ UNCHANGED <<requests, uploads, scan_history,
                   image, validation, validation_penalty, regions, ocr, cleaned,
                   extraction, svc_calls, call>>

Next ==
    \/ Validate
    \/ Decode
    \/ SplitRegions
    \/ OcrFront
    \/ OcrBack
    \/ OcrFull
    \/ CheckText
    \/ Clean
    \/ Extract
    \/ Finish

Spec == Init /\ [][Next]_vars

\* ------------------------------------------------------------------------
\* process called a second time on the same LabelVisionPipeline
\* ------------------------------------------------------------------------

\* The first call has returned; process is called again. Its locals
\* (lines 44-55) start afresh, self.ocr_client and the module-level model
\* are those of the first call; `call` keeps the first call for comparison.
\* The second image is the same bytes again, a photograph the validator
\* accepts or a small one it rejects.
ProcessAgain ==
    /\ pc = "done"
    /\ call = NoCall
    /\ image' \in {image, Image(TRUE, 1000, 800, 600, 128, 60),
                   Image(TRUE, 100, 100, 300, 10, 5)}
    /\ call' = [fn |-> "process", image |-> image, ocr |-> ocr,
                svc |-> extraction.svc, is_valid |-> validation.is_valid,
                trace |-> [result.pipeline EXCEPT !.raw_text = EmptyTrace.raw_text],
                out |-> [product_name |-> result.dict.product_name,
                         brand |-> result.dict.brand,
                         expiry_date |-> result.dict.expiry_date,
                         mfg_date |-> result.dict.mfg_date,
                         ingredients |-> result.dict.ingredients,
                         warnings |-> result.dict.warnings,
                         confidence |-> result.dict.confidence,
                         failure_reason |-> result.dict.failure_reason]]
    /\ pc' = "start"
    /\ validation' = NoValidation
    /\ validation_penalty' = 0
    /\ regions' = NoRegions
    /\ ocr' = [front |-> NoOcr, back |-> NoOcr, full |-> NoOcr]
    /\ cleaned' = NoCleaned
    /\ extraction' = NoExtraction
    /\ result' = InitialResult
    /\ stages' = <<>>
    /\ svc_calls' = 0
    /\ UNCHANGED <<requests, uploads, scan_history>>

NextRepeat == Next \/ ProcessAgain

SpecRepeat == Init /\ [][NextRepeat]_vars

\* ------------------------------------------------------------------------
\* extract_from_pipeline called on its own, and as /scan calls it
\* ------------------------------------------------------------------------


ExtractFronts ==
    {<<>>,
     <<"a","b","c">>,
     <<"M","o","c","h","i"," ","T","o","n","e","r">>,
     <<"D","O","V","E","\n","M","o","c","h","i"," ","T","o","n","e","r">>}
ExtractBacks ==
    {<<>>,
     <<"a","b">>,
     <<"a","b","c">>,
     <<"E","X","P",":"," ","1","2","/","0","5","/","2","6">>,
     <<"M","F","G"," ","1","-","2","-","2","0","2","4","\n","I","n","g","r","e","d","i","e","n","t","s",":"," ","W","a","t","e","r",","," ","G","l","y","c","e","r","i","n">>,
     <<"W","a","r","n","i","n","g",":"," ","A","v","o","i","d"," ","e","y","e","s">>}

\* services whose pass fails: not configured, raising, or answering with
\* text json.loads does not turn into an object
FailingServices ==
    {ServiceOff, ServiceRaises,
     ServiceSays(<<>>),
     ServiceSays(<<ARRAY>>),
     ServiceSays(<<PROSE, OBJECT(GoodObject)>>),
     ServiceSays(<<FENCE_JSON, WS, TRUNCATED(GoodObject)>>)}

ExtractServices ==
    FailingServices
    \cup {ServiceSays(<<FENCE, OBJECT(GoodObject), FENCE>>),
          ServiceSays(<<PROSE, FENCE_JSON, WS, OBJECT(GoodObject), WS, FENCE, PROSE>>)}
    \cup {ServiceSays(<<OBJECT(o)>>) : o \in {NoKeys, GoodObject}}
    \cup {ServiceSays(<<OBJECT([NoKeys EXCEPT ![f] = v])>>) :
             f \in {"product_name", "brand", "expiry_date", "mfg_date"},
             v \in {Str(<<>>), Str(A_UNKNOWN), Str(A_NAME)}}
    \cup {ServiceSays(<<OBJECT([GoodObject EXCEPT ![f] = v])>>) :
             f \in {"product_name", "brand", "expiry_date", "mfg_date"},
             v \in {None, Str(<<".",".",".">>)}}
    \cup {ServiceSays(<<OBJECT([NoKeys EXCEPT ![f] = Num])>>) :
             f \in {"product_name", "brand"}}
    \cup {ServiceSays(<<OBJECT([NoKeys EXCEPT ![f] = v])>>) :
             f \in {"ingredients", "warnings"}, v \in {List(<<>>), List(<<A_ING>>)}}


InitExtract ==
    /\ pc = "extract_idle"
    /\ image = Image(FALSE, 0, 0, 0, 0, 0)
    /\ Fresh

\* one call extract_from_pipeline(front_text, back_text, full_text)
Called(front_text, back_text, svc, now) ==
    /\ extraction' = [done |-> TRUE, front_text |-> front_text, back_text |-> back_text,
                      svc |-> svc, now |-> now,
                      out |-> extract_from_pipeline(front_text, back_text, svc, now)]
    /\ svc_calls' = svc_calls + (IF extraction'.out.called THEN 1 ELSE 0)
    /\ pc' = IF extraction'.out.out.raised THEN "extract_raised" ELSE "extract_returned"
    /\ stages' = Append(stages, "extract")
    /\ UNCHANGED <<requests, uploads, scan_history,
                   image, validation, validation_penalty, regions, ocr, cleaned,
                   result, call>>

ExtractCall ==
    /\ pc = "extract_idle"
    /\ \E front_text \in ExtractFronts, back_text \in ExtractBacks,
          svc \in ExtractServices, now \in Clock :
          Called(front_text, back_text, svc, now)

\* the text of a whole label: brand, product, expiry date, ingredients and
\* a warning, one to a line
LabelText ==
    <<"T","O","N","Y","M","O","L","Y","\n","C","e","r","a","m","i","d",
        "e"," ","M","o","c","h","i"," ","T","o","n","e","r","\n","E","X",
        "P",":"," ","1","2","/","2","0","2","6","\n","I","n","g","r","e",
        "d","i","e","n","t","s",":"," ","W","a","t","e","r",","," ","G",
        "l","y","c","e","r","i","n","\n","W","a","r","n","i","n","g",":",
        " ","A","v","o","i","d"," ","e","y","e","s">>

\* main.py line 132: extract_from_pipeline(front_text, front_text, front_text)
\* if front_text.strip()
ScanExtract ==
    /\ pc = "extract_idle"
    /\ \E text \in ExtractFronts \cup ExtractBacks, svc \in ExtractServices, now \in Clock :
          /\ Strip(text) # <<>>
          /\ Called(text, text, svc, now)

\* the same call on the text of a whole label with the service unavailable
ScanLabel ==
    /\ pc = "extract_idle"
    /\ \E svc \in {ServiceOff, ServiceRaises}, now \in Clock :
          Called(LabelText, LabelText, svc, now)

NextExtract == ExtractCall \/ ScanExtract \/ ScanLabel

SpecExtract == InitExtract /\ [][NextExtract]_vars

\* ------------------------------------------------------------------------
\* Properties of extract_from_pipeline (checked under SpecExtract)
\* ------------------------------------------------------------------------

\* the dictionary the call returned, and what the service pass gave
Ret == extraction.out.out.ret
Tier1 == extraction.out.gemini

AllNull(d) ==
    /\ d.product_name = None /\ d.brand = None
    /\ d.expiry_date = None /\ d.mfg_date = None
    /\ d.ingredients = List(<<>>) /\ d.warnings = List(<<>>)

\* what the regex/heuristic functions give for the call's texts
Tier2For(front_text, back_text, combined_text) ==
    [product_name |-> PyOr(extract_product_name(front_text),
                           extract_product_name(combined_text)),
     brand |-> PyOr(extract_brand(front_text), extract_brand(combined_text)),
     expiry_date |-> extract_dates(back_text).expiry_date,
     mfg_date |-> extract_dates(back_text).mfg_date,
     ingredients |-> List(extract_ingredients(back_text)),
     warnings |-> List(extract_warnings(back_text))]
Tier2 == Tier2For(extraction.front_text, extraction.back_text,
                  CombinedText(extraction.front_text, extraction.back_text))

CallTooShort == TooShort(CombinedText(extraction.front_text, extraction.back_text))

\* C1 (as claimed): when front_text and back_text are each shorter than 5
\* characters after trimming, the call returns confidence 0 with every field
\* null or empty and never calls the service.
C1_EachShortGivesNull ==
    (/\ extraction.done
     /\ Len(Strip(extraction.front_text)) < 5
     /\ Len(Strip(extraction.back_text)) < 5)
    => (/\ Ret.confidence = 0
        /\ AllNull(Ret)
        /\ ~extraction.out.called
        /\ svc_calls = 0)

\* C3: extract_from_pipeline never raises; an error inside it (the service
\* answered with a product_name that is no string, which the summary join
\* rejects) comes back as a dictionary with a failure_reason, every field
\* null or empty and confidence 0.
C3_ExtractionNeverRaises ==
    /\ pc # "extract_raised"
    /\ extraction.done =>
          /\ ~extraction.out.out.raised
          /\ Tier1.product_name = Num => "failure_reason" \in Ret.keys
          /\ "failure_reason" \in Ret.keys =>
                /\ Ret.failure_reason # "absent"
                /\ AllNull(Ret)
                /\ Ret.confidence = 0

C3_Witness ==
    /\ pc = "extract_returned"
    /\ Tier1.product_name = Num
    /\ Ret.failure_reason = "TypeError"

\* the returned dictionary carries the fallback's fields and their score
FallbackAlone(ret, tier2) ==
    \A fallback \in {tier2} :
        /\ \A f \in FieldNames : ret[f] = fallback[f]
        /\ ret.confidence = compute_confidence(extraction.front_text,
                                               extraction.back_text, fallback)

\* C8: when the service is not configured, raises, or answers with text
\* that does not parse to an object, the call returns, without a
\* failure_reason, exactly the fields and the confidence the
\* regex/heuristic functions give for the same texts.
C8_ServiceFailureFallsBack ==
    (/\ extraction.done
     /\ extraction.svc \in FailingServices
     /\ ~CallTooShort)
    => (/\ ~extraction.out.out.raised
        /\ "failure_reason" \notin Ret.keys
        /\ FallbackAlone(Ret, Tier2))

C8_Witness ==
    /\ pc = "extract_returned"
    /\ extraction.svc = ServiceRaises
    /\ extraction.out.called
    /\ Ret.brand = Str(<<"D","O","V","E">>)
    /\ Ret.expiry_date = Str(<<"1","2","/","0","5","/","2","0","2","6">>)

\* a value the service was told not to give: empty, "Unknown", "..."
IsPlaceholder(v) ==
    \/ v.t = "str" /\ v.s \in {<<>>, A_UNKNOWN, <<".",".",".">>}
    \/ v.t = "list" /\ v.l = <<>>

PlaceholderYields(ret, tier1, tier2) ==
    \A fallback \in {tier2} :
        \A f \in FieldNames :
            ret[f] = IF tier1[f] # None /\ ~IsPlaceholder(tier1[f])
                     THEN tier1[f] ELSE fallback[f]

TruthyFirst(ret, tier1, tier2) ==
    \A fallback \in {tier2} :
        \A f \in FieldNames :
            ret[f] = IF Truthy(tier1[f]) THEN tier1[f]
                     ELSE IF Truthy(fallback[f]) THEN fallback[f]
                     ELSE tier1[f]

\* C9 (as claimed): each returned field is the Tier 1 value if that is
\* present and no placeholder, and the Tier 2 value otherwise.
C9_PlaceholderYieldsToTier2 ==
    (/\ extraction.done
     /\ ~CallTooShort
     /\ "failure_reason" \notin Ret.keys)
    => PlaceholderYields(Ret, Tier1, Tier2)

\* C9 (amended): on every result without a failure_reason each returned
\* field is the Tier 1 value if that is truthy (neither null nor empty;
\* "Unknown" and "..." count as values), else the Tier 2 value if that is
\* truthy, else the falsy Tier 1 value; a truthy Tier 1 value is never
\* overridden.
C9_TruthyTier1Wins ==
    (/\ extraction.done
     /\ ~CallTooShort
     /\ "failure_reason" \notin Ret.keys)
    => TruthyFirst(Ret, Tier1, Tier2)

C9_Witness ==
    /\ pc = "extract_returned"
    /\ "failure_reason" \notin Ret.keys
    /\ Tier1.brand = Str(A_UNKNOWN)
    /\ Ret.brand = Str(A_UNKNOWN)
    /\ extract_brand(extraction.front_text) = Str(<<"D","O","V","E">>)
    /\ Tier1.expiry_date = None
    /\ Truthy(Ret.expiry_date)
    /\ Ret.expiry_date = extract_dates(extraction.back_text).expiry_date

\* ------------------------------------------------------------------------
\* Properties of LabelVisionPipeline.process (checked under Spec)
\* ------------------------------------------------------------------------

Returned == pc = "done"

Attempted(stage) == \E i \in DOMAIN stages : stages[i] = stage

FullRun == <<"validate", "decode", "split", "ocr_front", "ocr_back", "ocr_full",
             "check", "clean", "extract", "penalty">>

OcrRan == ocr.front.done /\ ocr.back.done /\ ocr.full.done

\* C2 (as claimed): for a buffer that does not decode, process returns
\* confidence 0, every field null or empty, a validation report with
\* is_valid false and an issue in the trace, and the failure reason of the
\* no-text-detected result.
C2_UndecodableGivesNoText ==
    (Returned /\ ~image.decodable)
    => (/\ result.dict.confidence = 0
        /\ AllNull(result.dict)
        /\ result.pipeline.validation.done
        /\ ~result.pipeline.validation.is_valid
        /\ result.pipeline.validation.issues # <<>>
        /\ result.dict.failure_reason = "Label text could not be detected. Please try a clearer image.")

\* C4: for a decodable image a report with is_valid false stops nothing:
\* OCR is attempted on the front region, with no engine error all three
\* regions are read, and with enough full-image text the run goes through
\* cleaning and extraction and returns the extractor's fields, as it does
\* for a valid image.
C4_QualityGateAdvisory ==
    (Returned /\ image.decodable /\ ~validation.is_valid)
    => (/\ Attempted("ocr_front")
        /\ result.dict.failure_reason # "OCR extraction failed" => OcrRan
        /\ (OcrRan /\ Len(ocr.full.text) >= 5) =>
              /\ stages = FullRun
              /\ cleaned = [done |-> TRUE,
                            front_text |-> clean_block(ocr.front.text),
                            back_text |-> clean_block(ocr.back.text)]
              /\ extraction.done
              /\ \A f \in FieldNames : result.dict[f] = extraction.out.out.ret[f])

C4_Witness ==
    /\ Returned
    /\ image.decodable
    /\ ~validation.is_valid
    /\ stages = FullRun
    /\ svc_calls = 1
    /\ result.dict.brand = Str(A_BRAND)

\* C5 (as claimed): for a buffer that does not decode, validate reports
\* is_valid false with a non-empty issues list, and process still attempts
\* OCR.
C5_UndecodableStillOcr ==
    (Returned /\ ~image.decodable)
    => (/\ validation.done
        /\ ~validation.is_valid
        /\ validation.issues # <<>>
        /\ Attempted("ocr_front"))

\* C6: when the full-image OCR text has fewer than 5 characters after
\* trimming, process returns at once with confidence 0, every field null
\* or empty and the no-text failure reason, whatever the front and back
\* texts are; TextCleaner, extract_from_pipeline and the service are not
\* called in that run.
C6_NoTextAbortsEarly ==
    (ocr.full.done /\ Len(Strip(ocr.full.text)) < 5 /\ pc # "ocr_full")
    => (/\ Returned
        /\ result.dict.confidence = 0
        /\ AllNull(result.dict)
        /\ result.dict.failure_reason = "Label text could not be detected. Please try a clearer image."
        /\ ~Attempted("clean")
        /\ ~Attempted("extract")
        /\ ~cleaned.done
        /\ ~extraction.done
        /\ svc_calls = 0)

C6_Witness ==
    /\ Returned
    /\ ocr.full.done
    /\ ocr.full.text = <<"a", "b">>
    /\ Len(ocr.front.text) >= 5
    /\ Len(ocr.back.text) >= 5
    /\ result.dict.failure_reason = "Label text could not be detected. Please try a clearer image."

\* C7: the returned confidence is the extractor's confidence when the
\* report says is_valid true, and that confidence less 0.30 but not below 0
\* when it says is_valid false; the penalty is set if and only if is_valid
\* is false, and every returned confidence lies between 0 and 1.
C7_FlatPenaltyFloored ==
    /\ validation.done => (validation_penalty = 30 <=> ~validation.is_valid)
    /\ validation.done => validation_penalty \in {0, 30}
    /\ result.dict.confidence \in 0..100
    /\ (Returned /\ Attempted("penalty")) =>
          result.dict.confidence =
             IF validation.is_valid THEN extraction.out.out.ret.confidence
             ELSE IF extraction.out.out.ret.confidence >= 30
             THEN extraction.out.out.ret.confidence - 30
             ELSE 0

C7_Witness ==
    /\ Returned
    /\ Attempted("penalty")
    /\ ~validation.is_valid
    /\ extraction.out.out.ret.confidence = 100
    /\ result.dict.confidence = 70

\* ------------------------------------------------------------------------
\* extract_dates and extract_brand applied on their own
\* ------------------------------------------------------------------------

\* lines a label may carry
LabelLines ==
    {<<"E","X","P",":"," ","1","2","/","0","5","/","2","6">>,
     <<"E","X","P",":">>,
     <<"M","F","G"," ","1","-","2","-","2","0","2","4">>,
     <<"B","e","s","t"," ","b","e","f","o","r","e"," ","J","a","n"," ","2","0","2","7">>,
     <<"e","x","p","i","r","y"," ","2","0","2","6">>,
     <<"U","s","e"," ","b","y"," ","3","/","4","/","1","2","3","4","5","6">>,
     <<"e","x","p"," ","1","2","3","/","4","/","2","0","2","6">>,
     <<"E","X","P"," ","1","/","2","/","1","2","3">>,
     <<"1","2","/","0","5","/","2","0","2","6">>,
     <<"d","o","v","e"," ","s","o","a","p">>,
     <<"O","l","a","y">>,
     <<"A","B">>,
     <<"A","C","M","E"," ","L","A","B","S">>,
     <<"F","O","R"," ","Y","O","U">>}

\* the most lines of a text the functions are applied to
MaxLines == 2

\* the texts of n lines
RECURSIVE TextsOf(_)
TextsOf(n) ==
    IF n = 0 THEN {<<>>}
    ELSE IF n = 1 THEN LabelLines
    ELSE {t \o <<"\n">> \o l : t \in TextsOf(n - 1), l \in LabelLines}

LabelTexts == UNION {TextsOf(n) : n \in 0..MaxLines}

InitFallback ==
    /\ pc = "fn_idle"
    /\ image = Image(FALSE, 0, 0, 0, 0, 0)
    /\ Fresh

Applied(fn, text, out) ==
    /\ pc = "fn_idle"
    /\ call' = [fn |-> fn, text |-> text, out |-> out]
    /\ pc' = "fn_returned"
    /\ UNCHANGED <<requests, uploads, scan_history,
                   image, validation, validation_penalty, regions, ocr, cleaned,
                   extraction, result, stages, svc_calls>>

CallExtractDates ==
    \E text \in LabelTexts : Applied("extract_dates", text, extract_dates(text))

CallExtractBrand ==
    \E text \in LabelTexts : Applied("extract_brand", text, [brand |-> extract_brand(text)])

\* extract_product_name on the label texts, on a text that opens with a
\* date, on one that opens with a long line of capitals, and on texts of
\* 14 and of 15 short lines followed by a name
CallExtractProductName ==
    \E text \in LabelTexts
                 \cup {<<"1","/","2","/","2","6"," ","T","o","n","e","r">>,
                       <<"R","I","C","H"," ","N","O","U","R","I","S","H","I","N","G"," ","C","R","E","A","M"," ","W","I","T","H"," ","C","E","R","A","M","I","D","E"," ","A","N","D"," ","M","O","C","H","I"," ","R","I","C","E">>
                           \o <<"\n">> \o <<"M","o","c","h","i"," ","T","o","n","e","r">>}
                 \cup {[i \in 1..(3 * n) |-> IF i % 3 = 0 THEN "\n" ELSE "A"]
                           \o <<"M","o","c","h","i"," ","T","o","n","e","r">> : n \in 14..15} :
        Applied("extract_product_name", text, [product_name |-> extract_product_name(text)])

\* extract_ingredients on back texts made of a header (or none), two
\* items and what follows the list, and on lists of 30 and of 31 items
CallExtractIngredients ==
    \E text \in {head \o a \o <<",", " ">> \o b \o rest :
                     head \in {<<"I","n","g","r","e","d","i","e","n","t","s",":"," ">>,
                               <<"I","N","G","R","E","D","I","E","N","T","\n">>,
                               <<"M","a","d","e"," ","w","i","t","h"," ">>},
                     a, b \in {<<"W","a","t","e","r">>, <<"-"," ","W","a","t","e","r"," ","-">>,
                               <<"a","b","*">>, <<"*"," ","O","i","l">>,
                               <<"BULLET", " ", "G", "l", "y">>, <<"x">>},
                     rest \in {<<>>, <<"\n","\n","m","o","r","e">>,
                               <<"\n","D","i","r","e","c","t","i","o","n","s",":"," ","u","s","e">>,
                               <<"\n","n","o","t","e",":"," ","x">>}}
                 \cup {<<"I","n","g","r","e","d","i","e","n","t","s",":"," ">>
                           \o [i \in 1..(4 * n) |-> IF i % 4 = 0 THEN "," ELSE "a"] :
                       n \in 30..31} :
        Applied("extract_ingredients", text, [ingredients |-> extract_ingredients(text)])

\* TextCleaner.clean on a front text of three OCR lines (or none at all)
\* and a back text
CallClean ==
    \E a, b, c \in {<<>>, <<" ", "\t">>, <<"a">>, <<" ", "a", "b", " ">>,
                    <<"a", " ", " ", "b", "\t", " ", "c">>, <<"*", "*", "*">>,
                    <<"-", " ", "1">>, <<"BULLET", " ", "?">>},
       empty \in BOOLEAN,
       back_text \in {<<>>, <<"*", "\n", " ", "E", "X", "P", " ", " ", "1", "\n", "\n", "x">>} :
       Applied("clean",
               [front_text |-> IF empty THEN <<>> ELSE a \o <<"\n">> \o b \o <<"\n">> \o c,
                back_text |-> back_text],
               clean([front_text |-> IF empty THEN <<>> ELSE a \o <<"\n">> \o b \o <<"\n">> \o c,
                      back_text |-> back_text]))

\* the most ingredients of a dictionary compute_confidence is applied to
MaxItems == 11

CallComputeConfidence ==
    \E front_text \in {<<>>, <<"M","o","c","h","i"," ","T","o","n","e","r">>},
       back_text \in {<<>>, [i \in 1..60 |-> IF i % 6 = 0 THEN " " ELSE "a"]},
       extracted \in
          [product_name : {None, Str(<<>>), Str(A_NAME),
                           Str(<<"U","n","k","n","o","w","n"," ","P","r","o","d","u","c","t">>)},
           brand : {None, Str(<<>>), Str(A_BRAND)},
           expiry_date : {None, Str(<<"1","2","/","0","5","/","2","0","2","6">>)},
           mfg_date : {None, Str(<<"1","-","2","-","2","0","2","4">>)},
           ingredients : {List([i \in 1..n |-> A_ING]) : n \in {0, 1, MaxItems}},
           warnings : {List(<<>>), List(<< <<".",".",".">> >>)}] :
       /\ pc = "fn_idle"
       /\ call' = [fn |-> "compute_confidence", front_text |-> front_text,
                   back_text |-> back_text, extracted |-> extracted,
                   out |-> compute_confidence(front_text, back_text, extracted)]
       /\ pc' = "fn_returned"
       /\ UNCHANGED <<requests, uploads, scan_history,
                      image, validation, validation_penalty, regions, ocr,
                      cleaned, extraction, result, stages, svc_calls>>

\* the same dictionary scored again once its missing brand is filled in
CallComputeConfidenceWithBrand ==
    \E brand \in {Str(A_BRAND), Str(<<"D","O","V","E">>)} :
       /\ pc = "fn_returned"
       /\ call.fn = "compute_confidence"
       /\ call.extracted.brand = None
       /\ call' = [fn |-> "compute_confidence", front_text |-> call.front_text,
                   back_text |-> call.back_text,
                   extracted |-> [call.extracted EXCEPT !.brand = brand],
                   out |-> compute_confidence(call.front_text, call.back_text,
                              [call.extracted EXCEPT !.brand = brand]),
                   before |-> call]
       /\ pc' = "fn_rescored"
       /\ UNCHANGED <<requests, uploads, scan_history,
                      image, validation, validation_penalty, regions, ocr,
                      cleaned, extraction, result, stages, svc_calls>>

\* the tallest image RegionSplitter.split is applied to
MaxHeight == 25

CallSplit ==
    \E h \in 0..MaxHeight :
       /\ pc = "fn_idle"
       /\ call' = [fn |-> "split", h |-> h, out |-> split(h)]
       /\ pc' = "fn_returned"
       /\ UNCHANGED <<requests, uploads, scan_history,
                      image, validation, validation_penalty, regions, ocr,
                      cleaned, extraction, result, stages, svc_calls>>

NextFallback ==
    \/ CallClean
    \/ CallSplit
    \/ CallExtractDates
    \/ CallExtractBrand
    \/ CallExtractProductName
    \/ CallExtractIngredients
    \/ CallComputeConfidence
    \/ CallComputeConfidenceWithBrand

SpecFallback == InitFallback /\ [][NextFallback]_vars

\* ------------------------------------------------------------------------
\* The /scan endpoint (main.py)
\* ------------------------------------------------------------------------

\* A request holds the content types of its files (None when missing), the
\* locals of scan and the response: the HTTP status (0 while the request is
\* running), the detail of an error and the body returned.  A file of the
\* uploads directory is kept under <<scan_id, side>> and holds the bytes
\* uploaded, named <<request, side>>.  Confidences of a scan are kept in
\* thousandths, those of extract_from_pipeline in hundredths.

\* save_image(file_bytes, scan_id, side): open(filepath, "wb") creates the
\* file or replaces what it held
save_image(files, file_bytes, scan_id, side) ==
    [path \in DOMAIN files \cup {<<scan_id, side>>} |->
        IF path = <<scan_id, side>> THEN file_bytes ELSE files[path]]

merge_ocr_results(front_text, back_text, front_extraction, back_extraction) ==
    [keys |-> SixKeys,
     product_name |-> PyOr(front_extraction.product_name, back_extraction.product_name),
     brand |-> PyOr(front_extraction.brand, back_extraction.brand),
     expiry_date |-> PyOr(back_extraction.expiry_date, front_extraction.expiry_date),
     mfg_date |-> PyOr(back_extraction.mfg_date, front_extraction.mfg_date),
     ingredients |-> PyOr(back_extraction.ingredients, front_extraction.ingredients),
     warnings |-> PyOr(back_extraction.warnings, front_extraction.warnings),
     confidence |->
         5 * ((IF "confidence" \in front_extraction.keys
               THEN front_extraction.confidence ELSE 50)
              + (IF "confidence" \in back_extraction.keys
                 THEN back_extraction.confidence ELSE 50)),
     summary |-> None, scannedAt |-> 0, failure_reason |-> "absent"]

\* a variant that saves the front file before it looks at the content types
scan_saves_first(r) ==
    /\ requests[r].pc = "idle"
    /\ uploads' = save_image(uploads, <<r, "front">>, "1f0c9a2e", "front")
    /\ requests' = [requests EXCEPT ![r].pc = "returned", ![r].status = 400,
                                    ![r].detail = "Front file must be an image"]
    /\ UNCHANGED <<scan_history, pc, image, validation, validation_penalty, regions,
                   ocr, cleaned, extraction, result, stages, svc_calls, call>>

\* lines 106-119: a request arrives; the content types are checked and
\* short_id() draws the id of the scan
scan(r) ==
    /\ requests[r].pc = "idle"
    /\ \E front_type \in {None, Str(<<"t","e","x","t","/","p","l","a","i","n">>), Str(<<"i","m","a","g","e","/","j","p","e","g">>)},
          back \in BOOLEAN,
          back_type \in {None, Str(<<"a","p","p","l","i","c","a","t","i","o","n","/","p","d","f">>), Str(<<"i","m","a","g","e","/","p","n","g">>)},
          scan_id \in {"1f0c9a2e", "7b3d5e10"} :
          /\ ~back => back_type = None
          /\ requests' =
                [requests EXCEPT ![r] =
                    IF ~Truthy(front_type) \/ ~OccursAt(<<"i","m","a","g","e","/">>, front_type.s, 1)
                    THEN [@ EXCEPT !.pc = "returned", !.front_type = front_type,
                                   !.back = back, !.back_type = back_type,
                                   !.status = 400, !.detail = "Front file must be an image"]
                    ELSE IF back /\ (~Truthy(back_type) \/ ~OccursAt(<<"i","m","a","g","e","/">>, back_type.s, 1))
                    THEN [@ EXCEPT !.pc = "returned", !.front_type = front_type,
                                   !.back = back, !.back_type = back_type,
                                   !.status = 400, !.detail = "Back file must be an image"]
                    ELSE [@ EXCEPT !.pc = "front", !.front_type = front_type,
                                   !.back = back, !.back_type = back_type,
                                   !.scan_id = scan_id]]
    /\ UNCHANGED <<uploads, scan_history, pc, image, validation, validation_penalty,
                   regions, ocr, cleaned, extraction, result, stages, svc_calls, call>>

\* lines 122-136: the front file is read and saved, OCR runs on it (and
\* may raise) and its text, when not blank, is extracted
ScanFront(r) ==
    /\ requests[r].pc = "front"
    /\ uploads' = save_image(uploads, <<r, "front">>, requests[r].scan_id, "front")
    /\ \/ requests' = [requests EXCEPT ![r].pc = "returned", ![r].status = 500,
                                       ![r].detail = "OCR extraction failed"]
       \/ \E front_text \in {<<>>, <<"a", "b">>,
                               <<"D","O","V","E","\n","S","o","f","t"," ","C","r","e","a","m","\n","e","x","p"," ","J","a","n"," ","2","0","2","7">>},
             svc \in {ServiceOff, ServiceSays(<<OBJECT(GoodObject)>>)} :
             requests' =
                [requests EXCEPT
                    ![r].pc = IF requests[r].back THEN "back" ELSE "store",
                    ![r].front_text = front_text,
                    ![r].front_extraction =
                        IF Strip(front_text) # <<>>
                        THEN extract_from_pipeline(front_text, front_text, svc, 1).out.ret
                        ELSE NullResult({}, "absent")]
    /\ UNCHANGED <<scan_history, pc, image, validation, validation_penalty, regions,
                   ocr, cleaned, extraction, result, stages, svc_calls, call>>

\* lines 139-149: the same for the back file of a two-image scan
ScanBack(r) ==
    /\ requests[r].pc = "back"
    /\ uploads' = save_image(uploads, <<r, "back">>, requests[r].scan_id, "back")
    /\ \/ requests' = [requests EXCEPT ![r].pc = "returned", ![r].status = 500,
                                       ![r].detail = "OCR extraction failed"]
       \/ \E back_text \in {<<>>,
                              <<"E","X","P"," ","1","/","2","/","2","6","\n","I","n","g","r","e","d","i","e","n","t","s",":"," ","W","a","t","e","r",","," ","O","i","l","\n","A","v","o","i","d"," ","e","y","e","s">>},
             svc \in {ServiceOff} :
             requests' =
                [requests EXCEPT
                    ![r].pc = "store",
                    ![r].back_text = back_text,
                    ![r].back_extraction =
                        IF Strip(back_text) # <<>>
                        THEN extract_from_pipeline(back_text, back_text, svc, 1).out.ret
                        ELSE NullResult({}, "absent")]
    /\ UNCHANGED <<scan_history, pc, image, validation, validation_penalty, regions,
                   ocr, cleaned, extraction, result, stages, svc_calls, call>>

\* lines 152-167, 185: the dictionary scan returns
ScanResult(q) ==
    [extracted |->
        [(IF q.back /\ (Strip(q.front_text) # <<>> \/ Strip(q.back_text) # <<>>)
          THEN merge_ocr_results(q.front_text, q.back_text,
                                 q.front_extraction, q.back_extraction)
          ELSE [q.front_extraction EXCEPT !.confidence = 10 * @])
         EXCEPT !.keys = IF Strip(q.front_text) = <<>>
                            /\ (~q.back \/ Strip(q.back_text) = <<>>)
                         THEN @ \cup {"failure_reason", "suggestion"} ELSE @,
                !.failure_reason = IF Strip(q.front_text) = <<>>
                                      /\ (~q.back \/ Strip(q.back_text) = <<>>)
                                   THEN "No text detected in image(s). Please ensure the label is clearly visible."
                                   ELSE @],
     id |-> q.scan_id,
     sides |-> IF q.back THEN 2 ELSE 1,
     raw_ocr_front |-> Sub(q.front_text, 1, IF Len(q.front_text) < 300
                                            THEN Len(q.front_text) ELSE 300),
     raw_ocr_back |-> IF q.back
                      THEN Str(Sub(q.back_text, 1, IF Len(q.back_text) < 300
                                                   THEN Len(q.back_text) ELSE 300))
                      ELSE None,
     suggestion |-> IF Strip(q.front_text) = <<>> /\ (~q.back \/ Strip(q.back_text) = <<>>)
                    THEN "Try capturing in better lighting or from a closer angle."
                    ELSE "absent",
     image |-> <<q.scan_id, "front">>]

\* lines 152-192: the result is built, the row is added and committed (the
\* primary key refuses a second row of the same id: the except clause
\* answers 500) and the result is returned
ScanStore(r) ==
    /\ requests[r].pc = "store"
    /\ IF requests[r].scan_id \in DOMAIN scan_history
       THEN /\ requests' = [requests EXCEPT ![r].pc = "returned", ![r].status = 500,
                                            ![r].detail = "IntegrityError"]
            /\ UNCHANGED scan_history
       ELSE /\ requests' = [requests EXCEPT ![r].pc = "returned", ![r].status = 200,
                                            ![r].body = ScanResult(requests[r])]
            /\ scan_history' =
                  [id \in DOMAIN scan_history \cup {requests[r].scan_id} |->
                      IF id \in DOMAIN scan_history THEN scan_history[id]
                      ELSE [request |-> r,
                            raw_text_front |-> requests[r].front_text,
                            raw_text_back |-> IF requests[r].back
                                              THEN Str(requests[r].back_text) ELSE None,
                            extracted_json |-> ScanResult(requests[r]).extracted,
                            confidence |->
                                IF "confidence" \in ScanResult(requests[r]).extracted.keys
                                THEN ScanResult(requests[r]).extracted.confidence ELSE 0,
                            image_paths |->
                                IF requests[r].back
                                THEN <<<<id, "front">>, <<id, "back">>>>
                                ELSE <<<<id, "front">>>>]]
    /\ UNCHANGED <<uploads, pc, image, validation, validation_penalty, regions,
                   ocr, cleaned, extraction, result, stages, svc_calls, call>>

\* two requests, nothing stored yet
InitScan ==
    /\ pc = "scan"
    /\ image = Image(FALSE, 0, 0, 0, 0, 0)
    /\ validation = NoValidation
    /\ validation_penalty = 0
    /\ regions = NoRegions
    /\ ocr = [front |-> NoOcr, back |-> NoOcr, full |-> NoOcr]
    /\ cleaned = NoCleaned
    /\ extraction = NoExtraction
    /\ result = InitialResult
    /\ stages = <<>>
    /\ svc_calls = 0
    /\ call = NoCall
    /\ requests = [r \in 1..2 |->
                      [pc |-> "idle", front_type |-> None, back |-> FALSE,
                       back_type |-> None, scan_id |-> "", front_text |-> <<>>,
                       back_text |-> <<>>,
                       front_extraction |-> NullResult({}, "absent"),
                       back_extraction |-> NullResult({}, "absent"),
                       status |-> 0, detail |-> "", body |-> <<>>]]
    /\ uploads = <<>>
    /\ scan_history = <<>>

NextScan ==
    \/ \E r \in DOMAIN requests : scan(r)
    \/ \E r \in DOMAIN requests : ScanFront(r)
    \/ \E r \in DOMAIN requests : ScanBack(r)
    \/ \E r \in DOMAIN requests : ScanStore(r)

SpecScan == InitScan /\ [][NextScan]_vars

\* ------------------------------------------------------------------------
\* Properties of the fallback functions (checked under SpecFallback)
\* ------------------------------------------------------------------------

\* tok reads D/D/Y with 1-2, 1-2 and 2-4 digits, or letters, blanks and
\* four digits
NumericToken(tok) == tok # <<>> /\ NumericDateEnd(tok, 1) = Len(tok)
TextualToken(tok) == tok # <<>> /\ TextDateEnd(tok, 1) = Len(tok)

\* the positions of s right after a keyword of kws
KeywordEnds(low, kws) ==
    {KeywordEnd(low, i, kws[k]) : i \in 1..Len(low), k \in 1..Len(kws)} \ {0}

\* the positions of s that follow a keyword of kws, colons and blanks aside
AfterKeyword(s, ends) ==
    {a \in 1..Len(s) :
        \E e \in ends : e <= a /\ \A j \in e..(a - 1) : s[j] \in White \cup {":"}}

\* the date tokens of s that start at one of the positions
TokensAt(s, starts) ==
    {tok \in {Sub(s, a, b) : a \in starts, b \in 1..Len(s)} :
        NumericToken(tok) \/ TextualToken(tok)}

\* the date tokens of s that follow a keyword of kws
DateTokens(s, kws) == TokensAt(s, AfterKeyword(s, KeywordEnds(StrLower(s), kws)))

\* a numeric token with "/" for each separator and a 2-digit year
\* prefixed with "20"; a textual token as it is
Normalised(tok) ==
    IF ~NumericToken(tok) THEN tok
    ELSE LET slashed == [i \in 1..Len(tok) |-> IF tok[i] = "-" THEN "/" ELSE tok[i]]
             n == Len(tok)
         IN  IF slashed[n - 2] = "/"
             THEN Sub(slashed, 1, n - 2) \o <<"2", "0">> \o Sub(slashed, n - 1, n)
             ELSE slashed

\* every all-uppercase line of 3 to 20 characters without a blocked word
QualifyingLines(text) ==
    {line \in {StrippedLines(text)[i] : i \in 1..Len(StrippedLines(text))} :
        /\ IsUpperStr(line)
        /\ Len(line) >= 3 /\ Len(line) <= 20
        /\ ~AnyContained(skip_keywords, StrLower(line))}

KnownBrandsIn(text) ==
    {KNOWN_BRANDS[k] : k \in {j \in 1..Len(KNOWN_BRANDS) :
                                  Contains(KNOWN_BRANDS[j], StrUpper(text))}}

OneOf(value, candidates) ==
    IF candidates = {} THEN value = None
    ELSE value.t = "str" /\ value.s \in candidates

DateFrom(value, s, kws) == OneOf(value, DateTokens(s, kws))

NormalisedDateFrom(value, s, kws) ==
    OneOf(value, {Normalised(tok) : tok \in DateTokens(s, kws)})

BrandFrom(value, text) == OneOf(value, KnownBrandsIn(text) \cup QualifyingLines(text))

FourDigitYearDate(s) ==
    \E a, b \in 1..2 :
        /\ Len(s) = a + b + 6
        /\ \A i \in 1..Len(s) :
              IF i \in {a + 1, a + b + 2} THEN s[i] = "/" ELSE s[i] \in Digit

\* value is the date of the text for one kind of keyword: a token that
\* follows such a keyword, a numeric one in the form D/D/YYYY and a
\* textual one as captured; null exactly when the text has no such token
ClaimedDate(value, s, kws) ==
    /\ NormalisedDateFrom(value, s, kws)
    /\ (value.t = "str" /\ value.s[1] \in Digit) => FourDigitYearDate(value.s)

\* C25: every numeric date extract_dates returns reads D/D/YYYY with a
\* 4-digit year (a 2-digit year prefixed with "20", "-" turned into "/"),
\* a textual token is returned as captured, a match in the first line is
\* the one used whatever follows it, and each of expiry_date and mfg_date
\* depends on the tokens after its own keywords only.
C25_NumericDatesHaveFourDigitYear ==
    (pc = "fn_returned" /\ call.fn = "extract_dates") =>
        /\ ClaimedDate(call.out.expiry_date, call.text, ExpiryKeywords)
        /\ ClaimedDate(call.out.mfg_date, call.text, MfgKeywords)
        /\ \A key \in {"expiry_date", "mfg_date"} :
              extract_dates(Head(Split(call.text, "\n")))[key] # None =>
                  call.out[key] = extract_dates(Head(Split(call.text, "\n")))[key]

\* the entries of the known-brand list that occur in the text, letter case
\* aside
BrandsOccurring(text) ==
    {k \in 1..Len(KNOWN_BRANDS) : Contains(StrLower(KNOWN_BRANDS[k]), StrLower(text))}

\* the places of the all-uppercase lines of 3 to 20 characters without a
\* blocked keyword
QualifyingAt(lines) ==
    {i \in 1..Len(lines) :
        /\ IsUpperStr(lines[i])
        /\ Len(lines[i]) >= 3 /\ Len(lines[i]) <= 20
        /\ ~AnyContained(skip_keywords, StrLower(lines[i]))}

Lowest(S) == CHOOSE k \in S : \A j \in S : k <= j

\* C26: extract_brand matches the known-brand list case-insensitively:
\* a text that contains an entry of the list in any letter case yields the
\* first entry of the list that occurs in it; only a text without any
\* entry yields the first all-uppercase line of 3 to 20 characters that
\* has no blocked keyword, or null when there is no such line.
C26_KnownBrandsAnyCase ==
    (pc = "fn_returned" /\ call.fn = "extract_brand" /\ call.text # <<>>) =>
        IF BrandsOccurring(call.text) # {}
        THEN call.out.brand = Str(KNOWN_BRANDS[Lowest(BrandsOccurring(call.text))])
        ELSE IF QualifyingAt(StrippedLines(call.text)) # {}
        THEN call.out.brand =
                Str(StrippedLines(call.text)[Lowest(QualifyingAt(StrippedLines(call.text)))])
        ELSE call.out.brand = None

\* the first 15 non-empty lines of the text, stripped
LeadingLines(text) ==
    Sub(StrippedLines(text), 1,
        IF Len(StrippedLines(text)) < 15 THEN Len(StrippedLines(text)) ELSE 15)

\* a line that is not under 3 characters, has a letter or an underscore,
\* is not a line of capitals longer than 40 characters and is not a single
\* word of capitals
NameLike(line) ==
    /\ Len(line) >= 3
    /\ \E i \in 1..Len(line) : line[i] \in Letter \cup {"_"}
    /\ ~(Len(line) > 40 /\ IsUpperStr(line))
    /\ ~(IsUpperStr(line) /\ WordCount(line) = 1)

\* value is the first of the lines that is kept, or `otherwise`
FirstKept(value, lines, kept, otherwise) ==
    IF kept = {} THEN value = otherwise
    ELSE value = Str(lines[Lowest(kept)])

\* C27 (as claimed): extract_product_name returns the first of the leading
\* lines that is not under 3 characters, not pure digits and punctuation,
\* does not start with a date, is not a long line of capitals and not a
\* single word of capitals, and the literal "Unknown Product" when no line
\* survives, so never null for a non-empty text.
C27_NameOrSentinel ==
    (pc = "fn_returned" /\ call.fn = "extract_product_name" /\ call.text # <<>>) =>
        FirstKept(call.out.product_name, LeadingLines(call.text),
                  {i \in 1..Len(LeadingLines(call.text)) :
                      /\ NameLike(LeadingLines(call.text)[i])
                      /\ NumericDateEnd(LeadingLines(call.text)[i], 1) = 0},
                  Str(<<"U","n","k","n","o","w","n"," ","P","r","o","d","u","c","t">>))

\* C27 (amended): extract_product_name returns the first of the first 15
\* non-empty lines that is not under 3 characters, not made of digits and
\* non-word characters only, not a line of capitals longer than 40
\* characters and not a single word of capitals, a line that starts with
\* a date included; when no line survives it returns null.
C27_NameOrNull ==
    (pc = "fn_returned" /\ call.fn = "extract_product_name" /\ call.text # <<>>) =>
        FirstKept(call.out.product_name, LeadingLines(call.text),
                  {i \in 1..Len(LeadingLines(call.text)) :
                      NameLike(LeadingLines(call.text)[i])},
                  None)

\* a text of two lines none of which survives
C27_Witness ==
    /\ pc = "fn_returned"
    /\ call.fn = "extract_product_name"
    /\ call.text = <<"1","2","/","0","5","/","2","0","2","6">> \o <<"\n">> \o <<"A","B">>
    /\ call.out.product_name = None

\* the items occur in s one after the other, from position k on
RECURSIVE OccurInOrder(_, _, _)
OccurInOrder(items, s, k) ==
    \/ items = <<>>
    \/ \E i \in k..Len(s) :
          /\ OccursAt(Head(items), s, i)
          /\ OccurInOrder(Tail(items), s, i + Len(Head(items)))

\* C28: extract_ingredients returns at most 30 items, in text order, from
\* the text after the "Ingredients" header; every item is free of bullet
\* markers and whitespace at both ends and longer than 2 characters; a
\* text without the header yields the empty list.
C28_IngredientItemsTrimmed ==
    (pc = "fn_returned" /\ call.fn = "extract_ingredients") =>
        /\ Len(call.out.ingredients) <= 30
        /\ \A i \in 1..Len(call.out.ingredients) :
              /\ Len(call.out.ingredients[i]) > 2
              /\ Head(call.out.ingredients[i]) \notin White \cup {"BULLET", "-", "*"}
              /\ call.out.ingredients[i][Len(call.out.ingredients[i])]
                    \notin White \cup {"BULLET", "-", "*"}
        /\ Contains(IngredientWord, StrLower(call.text)) =>
              \E h \in 1..Len(call.text) :
                  /\ OccursAt(IngredientWord, StrLower(call.text), h)
                  /\ OccurInOrder(call.out.ingredients, call.text, h + Len(IngredientWord))
        /\ ~Contains(IngredientWord, StrLower(call.text)) => call.out.ingredients = <<>>

\* ------------------------------------------------------------------------
\* Properties of the OCR engine inside process (checked under Spec)
\* ------------------------------------------------------------------------

OcrRegionNames == {"front", "back", "full"}

\* Tesseract's page segmentation modes in the order of the tiers: 6 is a
\* single block of text, 11 is sparse text, 3 is fully automatic
Tiers == <<6, 11, 3>>

Count(text, class) == Cardinality({i \in 1..Len(text) : text[i] \in class})

Printable ==
    Letter \cup Digit \cup White \cup
    {"!", "#", "$", "%", "&", "'", "(", ")", "*", "+", ",", "-", ".", "/", ":",
     ";", "<", "=", ">", "?", "@", "[", "]", "^", "_", "{", "|", "}", "~"}

\* the text-validity check: at least 8 characters, letters at least 55% of
\* them, characters that are no letter, digit or blank at most 20%, two
\* spaces or more in a text of over 40 characters, non-ASCII characters at
\* most 5%
PassesValidity(text) ==
    /\ Len(text) >= 8
    /\ Count(text, Letter) * 100 >= 55 * Len(text)
    /\ (Len(text) - Count(text, Letter \cup Digit \cup White)) * 100 <= 20 * Len(text)
    /\ Len(text) > 40 => Count(text, {" "}) >= 2
    /\ (Len(text) - Count(text, Printable)) * 100 <= 5 * Len(text)

\* the runs follow the tiers, stop at the first one that passes, and the
\* text returned is the passing one or empty
TieredRuns(runs, returned) ==
    /\ runs # <<>>
    /\ Len(runs) <= Len(Tiers)
    /\ \A i \in 1..Len(runs) : runs[i].psm = Tiers[i]
    /\ \A i \in 1..(Len(runs) - 1) : ~PassesValidity(Strip(runs[i].text))
    /\ Len(runs) < Len(Tiers) => PassesValidity(Strip(runs[Len(runs)].text))
    /\ returned = IF PassesValidity(Strip(runs[Len(runs)].text))
                  THEN Strip(runs[Len(runs)].text) ELSE <<>>

\* C11 (as claimed): for each region the engine is run in block mode
\* first, then in sparse mode, then in automatic mode, each later run only
\* after the earlier text was empty or failed the validity check; the first
\* text that passes is returned, and the empty string when none does.
C11_TieredFallback ==
    \A region \in OcrRegionNames :
        ocr[region].done => TieredRuns(ocr[region].runs, ocr[region].text)

\* C12 (as claimed): every text the engine returns for a region is empty
\* or passes the validity check, so no text that fails it is given to
\* TextCleaner or extract_from_pipeline.
C12_OnlyValidTextReturned ==
    /\ \A region \in OcrRegionNames :
          ocr[region].done =>
             ocr[region].text = <<>> \/ PassesValidity(ocr[region].text)
    /\ cleaned.done =>
          \A region \in {"front", "back"} :
             ocr[region].text = <<>> \/ PassesValidity(ocr[region].text)

\* ------------------------------------------------------------------------
\* Properties of the service pass (checked under SpecExtract)
\* ------------------------------------------------------------------------

\* the service was asked and answered
Answered == extraction.done /\ extraction.out.called /\ ~extraction.svc.raises

\* the items of a cut-off array that were written in full
BeforeTruncation(items) == Sub(items, 1, Len(items) - 1)

\* C13 (as claimed): a response that is one valid JSON object comes back
\* from the service pass with every field as the object has it; the same
\* object cut off inside the last string of its ingredients array comes
\* back as an object with the ingredients written before the cut, the pass
\* not having failed.
C13_RepairRoundTrip ==
    Answered =>
       \A i \in 1..Len(extraction.svc.text) :
          /\ extraction.svc.text = <<OBJECT(extraction.svc.text[i].obj)>> =>
                \A f \in FieldNames :
                   extraction.svc.text[i].obj[f] # None =>
                      Tier1[f] = extraction.svc.text[i].obj[f]
          /\ extraction.svc.text[i].k = "truncated" =>
                /\ Tier1.ingredients =
                      List(BeforeTruncation(extraction.svc.text[i].obj.ingredients.l))
                /\ Tier1.product_name = extraction.svc.text[i].obj.product_name

\* ------------------------------------------------------------------------
\* Properties of the confidence score (checked under SpecFallback)
\* ------------------------------------------------------------------------

Scored == pc \in {"fn_returned", "fn_rescored"} /\ call.fn = "compute_confidence"

Present(v) == v.t # "none" /\ v # Str(<<>>) /\ v # List(<<>>)

Least(a, b) == IF a < b THEN a ELSE b

\* the score of the claimed formula, in two-hundredths (so that the halving
\* of an odd number of hundredths stays exact)
ClaimedScore(front_text, back_text, e) ==
    LET name == IF /\ Present(e.product_name)
                   /\ e.product_name.s # <<"U","n","k","n","o","w","n"," ","P","r","o","d","u","c","t">>
                THEN 35 ELSE 10
        score == name
                 + (IF Present(e.brand) THEN 20 ELSE 0)
                 + (IF Present(e.expiry_date) THEN 20 ELSE 0)
                 + (IF Present(e.mfg_date) THEN 5 ELSE 0)
                 + Least(Len(e.ingredients.l), 10)
                 + (IF Present(e.warnings) THEN 5 ELSE 0)
    IN  IF Len(CombinedText(front_text, back_text)) < 50 THEN score
        ELSE 2 * score

DocumentedWeight ==
    [product_name |-> 40, brand |-> 25, expiry_date |-> 20, mfg_date |-> 0,
     ingredients |-> 10, warnings |-> 5]

RECURSIVE SumOver(_, _)
SumOver(fields, e) ==
    IF fields = {} THEN 0
    ELSE LET f == CHOOSE g \in fields : TRUE
         IN  (IF Present(e[f]) THEN DocumentedWeight[f] ELSE 0)
             + SumOver(fields \ {f}, e)

C15_BrandNeverLowers ==
    /\ Scored => call.out \in 0..100
    /\ pc = "fn_rescored" => call.out >= call.before.out

\* a named product without a brand goes from 0.40 to 0.65 when the brand is found
C15_Witness ==
    /\ pc = "fn_rescored"
    /\ call.before.extracted.brand = None
    /\ call.extracted.brand = Str(A_BRAND)
    /\ call.before.out = 40
    /\ call.out = 65

\* ------------------------------------------------------------------------
\* Properties of the region split (checked under SpecFallback)
\* ------------------------------------------------------------------------

\* the rows of a region
RowsUpTo(region, h) == {y \in 0..h : region.from <= y /\ y < region.to}

\* k = floor(num * h / den)
IsFloor(k, num, den, h) == den * k <= num * h /\ num * h < den * (k + 1)

\* C20: for an image of h >= 0 rows the front region has floor(0.40 h) rows,
\* the back region h - floor(0.60 h) rows, full_image is all h rows, and the
\* front, middle and back ranges follow one another and cover the rows
\* 0..h-1 once each.
C20_SplitBoundary ==
    (pc = "fn_returned" /\ call.fn = "split") =>
       /\ IsFloor(Cardinality(RowsUpTo(call.out.front_region, call.h)), 2, 5, call.h)
       /\ IsFloor(call.h - Cardinality(RowsUpTo(call.out.back_region, call.h)),
                  3, 5, call.h)
       /\ RowsUpTo(call.out.full_image, call.h) = 0..(call.h - 1)
       /\ call.out.front_region.from = 0
       /\ call.out.front_region.to = call.out.middle_region.from
       /\ call.out.middle_region.to = call.out.back_region.from
       /\ call.out.back_region.to = call.h
       /\ \A y \in 0..(call.h - 1) :
             Cardinality({r \in {"front_region", "middle_region", "back_region"} :
                             y \in RowsUpTo(call.out[r], call.h)}) = 1
       /\ \A r \in {"front_region", "middle_region", "back_region"} :
             /\ call.out[r].from <= call.out[r].to
             /\ RowsUpTo(call.out[r], call.h) \subseteq 0..(call.h - 1)

\* seven rows split into rows 0-1, 2-3 and 4-6
C20_Witness ==
    /\ pc = "fn_returned"
    /\ call.fn = "split"
    /\ call.h = 7
    /\ RowsUpTo(call.out.front_region, 7) = {0, 1}
    /\ RowsUpTo(call.out.middle_region, 7) = {2, 3}
    /\ RowsUpTo(call.out.back_region, 7) = {4, 5, 6}

\* ------------------------------------------------------------------------
\* Order of the stages and the diagnostic trace (checked under Spec)
\* ------------------------------------------------------------------------

IsPrefix(s, t) == Len(s) <= Len(t) /\ \A i \in 1..Len(s) : s[i] = t[i]

\* the run met no engine error, enough text and no exception
SuccessPath ==
    /\ Returned
    /\ image.decodable
    /\ OcrRan
    /\ Len(Strip(ocr.full.text)) >= 5
    /\ extraction.done
    /\ ~extraction.out.out.raised

C17_EveryResultCarriesTrace ==
    Returned =>
       /\ result.pipeline.validation.done
       /\ result.pipeline.regions.has
       /\ result.pipeline.ocr.has

\* ------------------------------------------------------------------------
\* Two calls of process compared (checked under SpecRepeat)
\* ------------------------------------------------------------------------

\* the second call has returned
ReturnedAgain == pc = "done" /\ call.fn = "process"

\* both calls read the three regions and read the same texts
SameOcrTexts ==
    /\ OcrRan
    /\ \A region \in OcrRegionNames :
          /\ call.ocr[region].done
          /\ call.ocr[region].text = ocr[region].text

\* C18: two calls of process that read the same OCR texts return the same
\* product_name, brand, expiry_date, mfg_date, ingredients and warnings,
\* whatever their validation reports, region shapes and text-length
\* entries; their confidences are equal when both reports agree on
\* is_valid, and otherwise the rejected image's is the accepted one's less
\* 0.30, not below 0.
C18_TraceNeverFeedsBack ==
    (ReturnedAgain /\ SameOcrTexts) =>
       /\ \A f \in FieldNames : result.dict[f] = call.out[f]
       /\ validation.is_valid = call.is_valid =>
             result.dict.confidence = call.out.confidence
       /\ (validation.is_valid /\ ~call.is_valid) =>
             call.out.confidence =
                IF result.dict.confidence >= 30
                THEN result.dict.confidence - 30 ELSE 0
       /\ (~validation.is_valid /\ call.is_valid) =>
             result.dict.confidence =
                IF call.out.confidence >= 30
                THEN call.out.confidence - 30 ELSE 0

\* an accepted 1000x800 image and a rejected 100x100 one with the same
\* texts: same brand, confidence 0.30 apart
C18_Witness ==
    /\ ReturnedAgain
    /\ SameOcrTexts
    /\ stages = FullRun
    /\ call.is_valid
    /\ ~validation.is_valid
    /\ call.trace.validation # result.pipeline.validation
    /\ call.trace.regions # result.pipeline.regions
    /\ result.dict.brand = Str(<<"D","O","V","E">>)
    /\ call.out.brand = Str(<<"D","O","V","E">>)
    /\ call.out.confidence = result.dict.confidence + 30

\* C19: with the service not configured, a second call of process on the
\* same image bytes returns the product_name, brand, expiry_date, mfg_date,
\* ingredients, warnings and confidence of the first, whatever the clock
\* reads; nothing the first call left behind changes the second.
C19_Idempotent ==
    (ReturnedAgain /\ image = call.image /\ call.svc = ServiceOff) =>
       /\ \A f \in FieldNames : result.dict[f] = call.out[f]
       /\ result.dict.confidence = call.out.confidence
       /\ result.dict.failure_reason = call.out.failure_reason
       /\ [result.pipeline EXCEPT !.raw_text = EmptyTrace.raw_text] = call.trace

\* the same image read twice without the service, the second time at the last clock reading
C19_Witness ==
    /\ ReturnedAgain
    /\ image = call.image
    /\ call.svc = ServiceOff
    /\ extraction.svc = ServiceOff
    /\ stages = FullRun
    /\ result.dict.scannedAt = MaxClock
    /\ result.dict.confidence > 0
    /\ result.dict.product_name # None

\* ------------------------------------------------------------------------
\* Properties of TextCleaner (checked under SpecFallback)
\* ------------------------------------------------------------------------

\* the words of a line: its maximal runs of characters that are no whitespace
WordsOf(line) ==
    LET pieces == SplitRuns(line, White)
    IN  SelectSeq(pieces, LAMBDA w : w # <<>>)

\* a line survives when, trimmed, it is not empty, holds a letter or a digit
\* and has two characters or more
Survives(line) ==
    /\ Strip(line) # <<>>
    /\ \E i \in 1..Len(line) : line[i] \in Letter \cup Digit
    /\ Len(Strip(line)) >= 2

\* the surviving lines of a text in their order, each as its words with one
\* space between them
SurvivingLines(text) ==
    LET lines == SelectSeq(Split(text, "\n"), Survives)
    IN  [i \in 1..Len(lines) |-> Join(WordsOf(lines[i]), <<" ">>)]

\* C21: the cleaned block is the newline-joined sequence of the input's
\* lines that survive (non-empty after trimming, with a letter or digit, at
\* least 2 characters), in their order, each trimmed and with every run of
\* whitespace inside it collapsed to one space; the front and the back text
\* are each cleaned from their own text alone.
C21_CleanKeepsSurvivingLines ==
    (pc = "fn_returned" /\ call.fn = "clean") =>
       /\ DOMAIN call.out = DOMAIN call.text
       /\ \A key \in DOMAIN call.text :
             call.out[key] = Join(SurvivingLines(call.text[key]), <<"\n">>)

\* of "a  b\t c", "***" and " ab " the first and the last line are kept
C21_Witness ==
    /\ pc = "fn_returned"
    /\ call.fn = "clean"
    /\ call.text.front_text =
          <<"a", " ", " ", "b", "\t", " ", "c", "\n", "*", "*", "*", "\n", " ", "a", "b", " ">>
    /\ call.out.front_text = <<"a", " ", "b", " ", "c", "\n", "a", "b">>
    /\ call.text.back_text # <<>>
    /\ call.out.back_text = <<"E", "X", "P", " ", "1">>

\* ------------------------------------------------------------------------
\* The fallback pass on a whole label (checked under SpecExtract)
\* ------------------------------------------------------------------------

\* C22 (as claimed): with the service unavailable the label text
\* "TONYMOLY / Ceramide Mochi Toner / EXP: 12/2026 / Ingredients: Water,
\* Glycerin / Warning: Avoid eyes" gives brand TONYMOLY, product name
\* Ceramide Mochi Toner, expiry date 12/2026, ingredients Water and
\* Glycerin, and the warning line.
C22_LabelScenario ==
    (/\ extraction.done
     /\ extraction.front_text = LabelText
     /\ extraction.back_text = LabelText
     /\ extraction.svc \in {ServiceOff, ServiceRaises})
    => (/\ Ret.brand = Str(<<"T","O","N","Y","M","O","L","Y">>)
        /\ Ret.product_name = Str(<<"C","e","r","a","m","i","d","e"," ","M","o","c","h","i"," ","T","o","n","e","r">>)
        /\ Ret.expiry_date = Str(<<"1","2","/","2","0","2","6">>)
        /\ Ret.ingredients = List(<<<<"W","a","t","e","r">>, <<"G","l","y","c","e","r","i","n">>>>)
        /\ Ret.warnings = List(<<<<"W","a","r","n","i","n","g",":"," ","A","v","o","i","d"," ","e","y","e","s">>>>))

\* ------------------------------------------------------------------------
\* Properties of the /scan endpoint (checked under SpecScan)
\* ------------------------------------------------------------------------

\* a content type that is missing or does not start with "image/"
NotAnImage(content_type) ==
    content_type = None \/ Sub(content_type.s, 1, 6) # <<"i","m","a","g","e","/">>

\* what request r has left behind: files holding its bytes, rows it stored
FilesOf(r) == {path \in DOMAIN uploads : uploads[path][1] = r}
RowsOf(r) == {id \in DOMAIN scan_history : scan_history[id].request = r}

\* C23: a scan request whose front file, or whose back file when one is
\* supplied, has no content type or one that does not start with "image/"
\* is answered with the input-validation error 400, and nothing of it has
\* been read, saved, passed to OCR or recorded.
C23_BadContentTypeRejected ==
    \A r \in DOMAIN requests :
        (/\ requests[r].pc # "idle"
         /\ \/ NotAnImage(requests[r].front_type)
            \/ requests[r].back /\ NotAnImage(requests[r].back_type)) =>
            /\ requests[r].pc = "returned"
            /\ requests[r].status = 400
            /\ requests[r].detail \in {"Front file must be an image",
                                       "Back file must be an image"}
            /\ FilesOf(r) = {} /\ RowsOf(r) = {}
            /\ requests[r].scan_id = ""
            /\ requests[r].front_text = <<>> /\ requests[r].back_text = <<>>
            /\ requests[r].front_extraction.keys = {}
            /\ requests[r].back_extraction.keys = {}

\* a request with a good front file and a back file of the wrong type is
\* rejected while the other request has stored its scan
C23_Witness ==
    \E r, q \in DOMAIN requests :
        /\ requests[r].status = 400
        /\ requests[r].front_type = Str(<<"i","m","a","g","e","/","j","p","e","g">>)
        /\ requests[r].back /\ requests[r].back_type = Str(<<"a","p","p","l","i","c","a","t","i","o","n","/","p","d","f">>)
        /\ requests[q].status = 200
        /\ RowsOf(q) # {} /\ FilesOf(q) # {}

\* no text was found on any side the request carries
NoTextAtAll(q) ==
    Strip(q.front_text) = <<>> /\ (~q.back \/ Strip(q.back_text) = <<>>)

\* C24: when no text is found in the image or images of a scan, the
\* result returned carries a failure_reason and a suggestion next to the
\* six fields, all present and null or empty, and confidence 0.0, for a
\* scan of one image and for a scan of two.
C24_NoTextResultHasNullFields ==
    \A r \in DOMAIN requests :
        (requests[r].status = 200 /\ NoTextAtAll(requests[r])) =>
            /\ requests[r].body.extracted.failure_reason # "absent"
            /\ requests[r].body.suggestion # "absent"
            /\ SixKeys \cup {"failure_reason", "suggestion"}
                  \subseteq requests[r].body.extracted.keys
            /\ AllNull(requests[r].body.extracted)
            /\ requests[r].body.extracted.confidence = 0

\* the confidence of one side in thousandths, a side without text counting 0
SideConfidence(text, side_extraction) ==
    IF Strip(text) = <<>> THEN 0 ELSE 10 * side_extraction.confidence

\* C29: in a scan of two images with text on some side, product_name and
\* brand are the front's when non-empty and else the back's, expiry_date,
\* mfg_date, ingredients and warnings are the back's when non-empty and
\* else the front's, and confidence is the mean of the confidences of the
\* two sides, a side without text counting 0.0: it lies in [0, 1] and is
\* not above the larger of the two.
C29_MergedFromBothSides ==
    \A r \in DOMAIN requests :
        (requests[r].status = 200 /\ requests[r].back /\ ~NoTextAtAll(requests[r])) =>
            /\ requests[r].body.extracted.product_name =
                  PyOr(requests[r].front_extraction.product_name,
                       requests[r].back_extraction.product_name)
            /\ requests[r].body.extracted.brand =
                  PyOr(requests[r].front_extraction.brand, requests[r].back_extraction.brand)
            /\ \A f \in {"expiry_date", "mfg_date", "ingredients", "warnings"} :
                  requests[r].body.extracted[f] =
                      PyOr(requests[r].back_extraction[f], requests[r].front_extraction[f])
            /\ 2 * requests[r].body.extracted.confidence =
                  SideConfidence(requests[r].front_text, requests[r].front_extraction)
                  + SideConfidence(requests[r].back_text, requests[r].back_extraction)
            /\ requests[r].body.extracted.confidence \in 0..1000
            /\ \/ requests[r].body.extracted.confidence
                    <= SideConfidence(requests[r].front_text, requests[r].front_extraction)
               \/ requests[r].body.extracted.confidence
                    <= SideConfidence(requests[r].back_text, requests[r].back_extraction)

\* C30: whatever the interleaving of the scan requests, a scan that
\* completed has one row of its own, under an id no other stored scan
\* uses, and the files the row names hold the images of that scan: no
\* other scan has written over them.
C30_ScansKeepRowAndFiles ==
    /\ \A r \in DOMAIN requests :
          requests[r].status = 200 =>
              /\ RowsOf(r) = {requests[r].scan_id}
              /\ \A q \in DOMAIN requests \ {r} :
                    requests[q].status = 200 => requests[q].scan_id # requests[r].scan_id
    /\ \A id \in DOMAIN scan_history :
          \A i \in 1..Len(scan_history[id].image_paths) :
              /\ scan_history[id].image_paths[i] \in DOMAIN uploads
              /\ uploads[scan_history[id].image_paths[i]][1] = scan_history[id].request

====
